---- MODULE Spec2Model ----
(***************************************************************************)
(* Receive-side TCP engine of libxlio (src/src/core/lwip/tcp_in.c).        *)
(*                                                                         *)
(* One inbound segment is processed start-to-finish by L3_level_tcp_input. *)
(* The PCB is a record, the three segment queues are sequences, a pbuf     *)
(* chain is a sequence of fragments and a fragment is the sequence of the  *)
(* sequence numbers of the payload bytes it holds (the peer's byte with    *)
(* sequence number s is the value s), so that delivery, trimming and       *)
(* reassembly are decided by what the code does to the buffers.            *)
(*                                                                         *)
(* TLC's integers are 32-bit signed, so the u32 sequence space is modelled *)
(* as a 30-bit one (U32 == 2^30): wrap-around and the signed-difference    *)
(* comparisons work as in the code, on a smaller circle.                   *)
(*                                                                         *)
(* Collaborators whose code is outside tcp_in.c (tcp_output, tcp_rst,      *)
(* tcp_send_empty_ack, tcp_rexmit_fast, tcp_abort, the congestion module,  *)
(* the application upcalls) are recorded as events of the call, in order.  *)
(***************************************************************************)
EXTENDS Integers, Sequences, FiniteSets, TLC

VARIABLES pcb,    \* the connection's control block (struct tcp_pcb)
          lpcb,   \* the listening PCB of the passive-open path
          alive,  \* "live" | "aborted" | "removed" | "none": what became of pcb
          seg,    \* the last inbound segment, as it arrived
          env,    \* what the collaborators answered during the last call
          out,    \* what the last call did: events in order, delivered bytes
          hist    \* history of the connection (counters the claims speak of)

vars == <<pcb, lpcb, alive, seg, env, out, hist>>

(***************************************************************************)
(* Widths                                                                  *)
(***************************************************************************)
U32 == 2^30
HALF == 2^29
U8 == 256

Add32(a, b) == (a + b) % U32
Sub32(a, b) == ((a % U32) - (b % U32) + U32) % U32

(* a + d for a signed offset d *)
Off32(a, d) == Add32(a, d % U32)

(* (s32_t)((u32_t)(a) - (u32_t)(b)) < 0, and the macros built on it *)
TCP_SEQ_LT(a, b) == Sub32(a, b) >= HALF
TCP_SEQ_LEQ(a, b) == Sub32(a, b) = 0 \/ Sub32(a, b) >= HALF
TCP_SEQ_GT(a, b) == Sub32(a, b) # 0 /\ Sub32(a, b) < HALF
TCP_SEQ_GEQ(a, b) == Sub32(a, b) < HALF
TCP_SEQ_BETWEEN(a, b, c) == TCP_SEQ_GEQ(a, b) /\ TCP_SEQ_LEQ(a, c)

(***************************************************************************)
(* pbuf chains: a sequence of fragments; NULL is the empty sequence.       *)
(***************************************************************************)
NULL == <<>>

RECURSIVE tot_len(_)
tot_len(p) == IF p = <<>> THEN 0 ELSE Len(p[1]) + tot_len(Tail(p))

RECURSIVE pbuf_bytes(_)
pbuf_bytes(p) == IF p = <<>> THEN <<>> ELSE p[1] \o pbuf_bytes(Tail(p))

pbuf_clen(p) == Len(p)

pbuf_cat(h, t) == h \o t

(* pbuf_realloc(p, new_len): shrink the chain to new_len bytes; the fragment
   holding the cut is shortened and the fragments after it are freed. *)
RECURSIVE pbuf_realloc(_, _)
pbuf_realloc(p, n) ==
    IF p = <<>> THEN p
    ELSE IF n >= tot_len(p) THEN p
    ELSE IF n > Len(p[1]) THEN <<p[1]>> \o pbuf_realloc(Tail(p), n - Len(p[1]))
    ELSE <<SubSeq(p[1], 1, n)>>

(* pbuf_header(p, -off): hide the first off bytes of the first fragment *)
pbuf_header(p, off) ==
    IF p = <<>> THEN p
    ELSE <<SubSeq(p[1], off + 1, Len(p[1]))>> \o Tail(p)

(* the first-edge trim of tcp_receive: fragments wholly before the new start
   are emptied (len = 0) and stay in the chain, the next one is advanced *)
RECURSIVE trim_first_edge(_, _)
trim_first_edge(p, off) ==
    IF p = <<>> THEN p
    ELSE IF Len(p[1]) < off
         THEN << <<>> >> \o trim_first_edge(Tail(p), off - Len(p[1]))
         ELSE pbuf_header(p, off)

(***************************************************************************)
(* Segments                                                                *)
(***************************************************************************)
HasSynFin(fl) == ("SYN" \in fl) \/ ("FIN" \in fl)

(* TCP_TCPLEN(seg): length in sequence space, by the flags of the header *)
TCP_TCPLEN(s) == s.len + (IF HasSynFin(s.hflags) THEN 1 ELSE 0)

(* TCP_SEGLEN(seg): the same for a transmit segment, by seg->tcp_flags *)
TCP_SEGLEN(s) == s.len + (IF HasSynFin(s.tcp_flags) THEN 1 ELSE 0)

Ev(c, e) == [c EXCEPT !.ev = Append(@, e)]

tcp_ack_now(c) ==
    Ev([c EXCEPT !.pcb.flags = @ \cup {"TF_ACK_NOW"}], "ack_now")

tcp_ack(c) ==
    Ev(IF "TF_ACK_DELAY" \in c.pcb.flags
       THEN [c EXCEPT !.pcb.flags = (@ \ {"TF_ACK_DELAY"}) \cup {"TF_ACK_NOW"}]
       ELSE [c EXCEPT !.pcb.flags = @ \cup {"TF_ACK_DELAY"}], "ack_delay")

tcp_send_empty_ack(c) == Ev(c, "empty_ack")

tcp_quickack(c) == c.pcb.quickack

(***************************************************************************)
(* Out-of-order queue.  An entry: [seqno (tcphdr->seqno), len, hflags      *)
(* (TCPH_FLAGS of its header), p (its pbuf chain)].                        *)
(***************************************************************************)
tcp_seg_copy(in) ==
    [seqno |-> in.hseqno, len |-> in.inseg.len, hflags |-> in.hflags, p |-> in.inseg.p]

(* the while loop of tcp_oos_insert_segment: delete the following segments
   that cseg covers, copying a FIN they carry; <<cseg, what is left>> *)
RECURSIVE oos_delete_covered(_, _, _)
oos_delete_covered(cseg, next, seqno) ==
    IF next # <<>> /\
       TCP_SEQ_GEQ(Add32(seqno, cseg.len), Add32(next[1].seqno, next[1].len))
    THEN oos_delete_covered(
             IF "FIN" \in next[1].hflags
             THEN [cseg EXCEPT !.hflags = @ \cup {"FIN"}] ELSE cseg,
             Tail(next), seqno)
    ELSE <<cseg, next>>

(* "We need to trim the incoming segment": r is <<cseg, next>> as the
   while loop left them *)
oos_insert_trim(r, seqno) ==
    IF r[2] # <<>> /\ TCP_SEQ_GT(Add32(seqno, r[1].len), r[2][1].seqno)
    THEN <<[r[1] EXCEPT !.len = Sub32(r[2][1].seqno, seqno),
                        !.p = pbuf_realloc(r[1].p, Sub32(r[2][1].seqno, seqno))]>>
         \o r[2]
    ELSE <<r[1]>> \o r[2]

(* tcp_oos_insert_segment(pcb, cseg, next, in_data): the queue from cseg on *)
tcp_oos_insert_segment(cseg, next, seqno) ==
    IF "FIN" \in cseg.hflags
    THEN <<cseg>>
    ELSE oos_insert_trim(oos_delete_covered(cseg, next, seqno), seqno)

(* the previous segment left as it is *)
oos_trim_prev_none(prev, seqno) == prev

(* "We need to trim the prev segment" / "trim the last segment" *)
oos_trim_prev(prev, seqno) ==
    IF TCP_SEQ_GT(Add32(prev.seqno, prev.len), seqno)
    THEN LET l == Sub32(seqno, prev.seqno)
         IN [prev EXCEPT !.len = l, !.p = pbuf_realloc(prev.p, l)]
    ELSE prev

(* the appended copy, cut to the receive window when the peer overruns it *)
oos_tail_copy(pc, in) ==
    LET cseg == tcp_seg_copy(in)
    IN IF TCP_SEQ_GT(Add32(in.seqno, in.tcplen), Add32(pc.rcv_nxt, pc.rcv_wnd))
       THEN LET l == Sub32(Add32(pc.rcv_nxt, pc.rcv_wnd), in.seqno)
            IN [cseg EXCEPT !.hflags = @ \ {"FIN"}, !.len = l,
                            !.p = pbuf_realloc(cseg.p, l)]
       ELSE cseg

(* the for loop over pcb->ooseq (next = q[i], prev = q[i-1]); ok is whether
   tcp_seg_copy returned a segment.  The new queue. *)
RECURSIVE oos_walk(_, _, _, _, _)
oos_walk(pc, q, i, in, ok) ==
    IF i > Len(q) THEN q
    ELSE LET next == q[i]
             before == SubSeq(q, 1, i - 1)
             from == SubSeq(q, i, Len(q))
         IN IF in.seqno = next.seqno
            THEN IF in.inseg.len > next.len /\ ok
                 THEN before \o tcp_oos_insert_segment(tcp_seg_copy(in), from, in.seqno)
                 ELSE q
            ELSE IF i = 1 /\ TCP_SEQ_LT(in.seqno, next.seqno)
            THEN IF ok
                 THEN tcp_oos_insert_segment(tcp_seg_copy(in), from, in.seqno)
                 ELSE q
            ELSE IF i > 1 /\ TCP_SEQ_BETWEEN(in.seqno, Add32(q[i - 1].seqno, 1),
                                             Sub32(next.seqno, 1))
            THEN IF ok
                 THEN SubSeq(q, 1, i - 2) \o <<oos_trim_prev(q[i - 1], in.seqno)>>
                      \o tcp_oos_insert_segment(tcp_seg_copy(in), from, in.seqno)
                 ELSE q
            ELSE IF i = Len(q) /\ TCP_SEQ_GT(in.seqno, next.seqno)
            THEN IF "FIN" \in next.hflags \/ ~ok
                 THEN q
                 ELSE before \o <<oos_trim_prev(next, in.seqno)>>
                      \o <<oos_tail_copy(pc, in)>>
            ELSE oos_walk(pc, q, i + 1, in, ok)

(* the out-of-sequence branch with the result of tcp_seg_copy never tested *)
tcp_receive_ooseq_unchecked(c, ok) ==
    LET c1 == tcp_send_empty_ack(c)
    IN IF c1.pcb.ooseq = <<>>
       THEN [c1 EXCEPT !.pcb.ooseq = <<tcp_seg_copy(c1.in)>>]
       ELSE [c1 EXCEPT !.pcb.ooseq = oos_walk(c1.pcb, c1.pcb.ooseq, 1, c1.in, TRUE)]

(* the out-of-sequence branch of tcp_receive *)
tcp_receive_ooseq(c, ok) ==
    LET c1 == tcp_send_empty_ack(c)
    IN IF c1.pcb.ooseq = <<>>
       THEN IF ok THEN [c1 EXCEPT !.pcb.ooseq = <<tcp_seg_copy(c1.in)>>] ELSE c1
       ELSE [c1 EXCEPT !.pcb.ooseq = oos_walk(c1.pcb, c1.pcb.ooseq, 1, c1.in, ok)]

(***************************************************************************)
(* Retransmit-queue shrinker.  A transmit segment: [seqno, len, tcp_flags, *)
(* zc (TF_SEG_OPTS_ZEROCOPY), p: the p->len of each pbuf of its chain].    *)
(* A regular segment's first pbuf begins with the TCP header and options.  *)
(***************************************************************************)
TCP_HLEN == 20
TS_OPT_LEN == 12

(* LWIP_TCP_OPT_LENGTH(optflags) with optflags from TF_TIMESTAMP *)
shrink_optlen(pc) == IF "TF_TIMESTAMP" \in pc.flags THEN TS_OPT_LEN ELSE 0

(* len &= 0xfffffffc when the options area has to stay aligned *)
shrink_align(len, optlen) == IF optlen > 0 THEN len - (len % 4) ELSE len

(* the while (cur_p) loop of tcp_shrink_segment: [s, rest, count] *)
RECURSIVE shrink_walk(_, _, _, _)
shrink_walk(s, rest, ackno, count) ==
    IF rest = <<>> \/ TCP_SEQ_GT(Add32(s.seqno, rest[1]), ackno)
    THEN [s |-> s, rest |-> rest, count |-> count]
    ELSE shrink_walk([s EXCEPT !.len = @ - rest[1], !.seqno = Add32(@, rest[1])],
                     Tail(rest), ackno, count + 1)

(* the end of tcp_shrink_segment, w being what the while loop left: the
   header moves to the pbuf that holds ackno, or stays alone *)
shrink_after_walk(w, ackno, optlen) ==
    IF w.rest = <<>>
    THEN [s |-> [w.s EXCEPT !.p = <<TCP_HLEN + optlen>>], count |-> w.count]
    ELSE LET len == shrink_align(Sub32(ackno, w.s.seqno), optlen)
         IN [s |-> [w.s EXCEPT !.len = @ - len, !.seqno = Add32(@, len),
                               !.p = <<w.rest[1] - (len - optlen) + TCP_HLEN>>
                                     \o Tail(w.rest)],
             count |-> w.count + 1]

(* tcp_shrink_segment(pcb, seg, ackno): [s: the segment, count: freed pbufs] *)
tcp_shrink_segment(pc, s, ackno) ==
    LET optlen == shrink_optlen(pc)
    IN IF TCP_SEQ_GT(Add32(s.seqno, s.p[1] - optlen - TCP_HLEN), ackno)
       THEN LET len == shrink_align(Sub32(ackno, s.seqno), optlen)
            IN [s |-> [s EXCEPT !.len = @ - len, !.seqno = Add32(@, len),
                                !.p = <<s.p[1] - len>> \o Tail(s.p)],
                count |-> 0]
       ELSE IF Len(s.p) = 1
       THEN [s |-> s, count |-> 0]
       ELSE LET len1 == s.p[1] - TCP_HLEN - optlen
            IN shrink_after_walk(
                   shrink_walk([s EXCEPT !.len = @ - len1, !.seqno = Add32(@, len1)],
                               Tail(s.p), ackno, 0),
                   ackno, optlen)

(* tcp_shrink_zc_segment(pcb, seg, ackno) *)
RECURSIVE shrink_zc_walk(_, _, _)
shrink_zc_walk(s, ackno, count) ==
    IF Len(s.p) > 1 /\ TCP_SEQ_GEQ(ackno, Add32(s.seqno, s.p[1]))
    THEN shrink_zc_walk([s EXCEPT !.len = @ - s.p[1], !.seqno = Add32(@, s.p[1]),
                                  !.p = Tail(s.p)], ackno, count + 1)
    ELSE [s |-> s, count |-> count]

(* the first remaining pbuf is left as the loop found it *)
shrink_zc_first_untrimmed(w, ackno) == w

shrink_zc_first(w, ackno) ==
    IF TCP_SEQ_GT(ackno, w.s.seqno)
    THEN LET len == Sub32(ackno, w.s.seqno)
         IN [s |-> [w.s EXCEPT !.len = @ - len, !.seqno = ackno,
                               !.p = <<w.s.p[1] - len>> \o Tail(w.s.p)],
             count |-> w.count]
    ELSE w

tcp_shrink_zc_segment(pc, s, ackno) == shrink_zc_first(shrink_zc_walk(s, ackno, 0), ackno)

(* the head segment has been shrunk to r.s, r.count pbufs were freed *)
ack_partial_shrunk(r, q) == [q |-> <<r.s>> \o Tail(q), removed |-> r.count]

(* the head segment is shrunk whatever its flags *)
ack_partial_any(pc, ackno, q) ==
    ack_partial_shrunk(IF q[1].zc THEN tcp_shrink_zc_segment(pc, q[1], ackno)
                       ELSE tcp_shrink_segment(pc, q[1], ackno), q)

(* the branch of ack_partial_or_whole_segment for an ackno strictly inside
   the head segment: [q: the queue, removed: pbufs freed] *)
ack_partial(pc, ackno, q) ==
    IF "FIN" \in q[1].tcp_flags
    THEN [q |-> q, removed |-> 0]
    ELSE ack_partial_shrunk(IF q[1].zc THEN tcp_shrink_zc_segment(pc, q[1], ackno)
                            ELSE tcp_shrink_segment(pc, q[1], ackno), q)

(* the freed pbufs are not taken off pcb->snd_queuelen *)
ack_partial_uncounted(pc, r) == [pcb |-> pc, q |-> r.q]

(* pcb->snd_queuelen -= removed *)
ack_partial_counted(pc, r) ==
    [pcb |-> [pc EXCEPT !.snd_queuelen = Sub32(@, r.removed)], q |-> r.q]

(* the walk with the FIN of a freed segment left in pcb->acked *)
RECURSIVE ack_partial_or_whole_segment_fin_counted(_, _, _)
ack_partial_or_whole_segment_fin_counted(pc, ackno, q) ==
    IF q = <<>> \/ ~TCP_SEQ_GT(ackno, q[1].seqno)
    THEN [pcb |-> pc, q |-> q]
    ELSE IF TCP_SEQ_LT(ackno, Add32(q[1].seqno, TCP_SEGLEN(q[1])))
    THEN ack_partial_counted(pc, ack_partial(pc, ackno, q))
    ELSE ack_partial_or_whole_segment_fin_counted(
             [pc EXCEPT !.snd_queuelen = Sub32(@, pbuf_clen(q[1].p))], ackno, Tail(q))

(* ack_partial_or_whole_segment(pcb, ackno, &queue): [pcb, q] *)
RECURSIVE ack_partial_or_whole_segment(_, _, _)
ack_partial_or_whole_segment(pc, ackno, q) ==
    IF q = <<>> \/ ~TCP_SEQ_GT(ackno, q[1].seqno)
    THEN [pcb |-> pc, q |-> q]
    ELSE IF TCP_SEQ_LT(ackno, Add32(q[1].seqno, TCP_SEGLEN(q[1])))
    THEN ack_partial_counted(pc, ack_partial(pc, ackno, q))
    ELSE ack_partial_or_whole_segment(
             [pc EXCEPT !.acked = IF @ # 0 /\ "FIN" \in q[1].tcp_flags
                                  THEN @ - 1 ELSE @,
                        !.snd_queuelen = Sub32(@, pbuf_clen(q[1].p))],
             ackno, Tail(q))

(***************************************************************************)
(* tcp_receive.  The call's context c: [pcb, in (struct tcp_in_data), ev   *)
(* (events so far)].                                                       *)
(***************************************************************************)
TcpTicks == 9

S16(x) == ((x + 32768) % 65536) - 32768

(* SND_WND_SCALE(pcb, wnd): wnd << snd_scale *)
SND_WND_SCALE(pc, wnd) == wnd * (2 ^ pc.snd_scale)

(* "Update window": [pcb, persist] *)
tcp_receive_wnd(pc, in) ==
    IF TCP_SEQ_LT(pc.snd_wl1, in.seqno) \/
       (pc.snd_wl1 = in.seqno /\ TCP_SEQ_LT(pc.snd_wl2, in.ackno)) \/
       (pc.snd_wl2 = in.ackno /\ SND_WND_SCALE(pc, in.wnd) > pc.snd_wnd)
    THEN LET w == SND_WND_SCALE(pc, in.wnd)
             p1 == [pc EXCEPT !.snd_wnd = w,
                              !.snd_wnd_max = IF @ < w THEN w ELSE @,
                              !.snd_wl1 = in.seqno,
                              !.snd_wl2 = in.ackno]
         IN IF w = 0
            THEN [pcb |-> p1, persist |-> (pc.persist_backoff = 0)]
            ELSE [pcb |-> [p1 EXCEPT !.persist_backoff = 0], persist |-> FALSE]
    ELSE [pcb |-> pc, persist |-> FALSE]

(* an u8_t count that wraps *)
dupacks_inc_wrap(d) == (d + 1) % U8

(* the saturating count of duplicate acks, an u8_t *)
dupacks_inc(d) == IF (d + 1) % U8 > d THEN d + 1 ELSE d

(* ackno <= lastack: the duplicate-ack clauses 1-5 *)
tcp_receive_dupack(c, right_wnd_edge) ==
    LET pc == [c.pcb EXCEPT !.acked = 0]
        found_dupack == /\ c.in.tcplen = 0
                        /\ Add32(pc.snd_wl2, pc.snd_wnd) = right_wnd_edge
                        /\ pc.rtime >= 0
                        /\ pc.lastack = c.in.ackno
    IN IF found_dupack
       THEN LET d == dupacks_inc(pc.dupacks)
                c1 == [c EXCEPT !.pcb = [pc EXCEPT !.dupacks = d]]
            IN IF d > 3 THEN Ev(c1, "cc_dupack")
               ELSE IF d = 3 THEN Ev(Ev(c1, "rexmit_fast"), "cc_ack0")
               ELSE c1
       ELSE [c EXCEPT !.pcb = [pc EXCEPT !.dupacks = 0]]

(* the retransmit timer restarted whatever is left of unacked *)
newack_unacked_restarted(c, r, persist) ==
    [c EXCEPT !.pcb = [r.pcb EXCEPT !.unacked = r.q, !.rtime = 0,
                                    !.ticks_since_data_sent = 0]]

(* "If there's nothing left to acknowledge, stop the retransmit timer,
   otherwise reset it to start again"; r is what is left of unacked *)
newack_unacked(c, r, persist) ==
    [c EXCEPT !.pcb =
        IF r.q = <<>>
        THEN [r.pcb EXCEPT !.unacked = r.q,
                           !.persist_cnt = IF persist THEN 0 ELSE @,
                           !.persist_backoff = IF persist THEN 1 ELSE @,
                           !.rtime = -1,
                           !.ticks_since_data_sent = -1]
        ELSE [r.pcb EXCEPT !.unacked = r.q, !.rtime = 0, !.ticks_since_data_sent = 0]]

(* lastack < ackno <= snd_nxt: the ACK acknowledges new data *)
tcp_receive_newack(c, persist) ==
    LET pc == c.pcb
        c1 == IF "TF_INFR" \in pc.flags
              THEN Ev([c EXCEPT !.pcb.flags = @ \ {"TF_INFR"}], "cc_post_recovery")
              ELSE c
        p2 == [c1.pcb EXCEPT !.nrtx = 0,
                             !.rto = S16((pc.sa \div 8) + pc.sv),
                             !.acked = Sub32(c.in.ackno, pc.lastack),
                             !.snd_buf = Add32(@, Sub32(c.in.ackno, pc.lastack)),
                             !.dupacks = 0,
                             !.lastack = c.in.ackno]
        c3 == IF p2.state \in {"ESTABLISHED", "FIN_WAIT_1", "FIN_WAIT_2", "CLOSE_WAIT",
                               "CLOSING", "LAST_ACK", "TIME_WAIT"}
              THEN Ev([c1 EXCEPT !.pcb = p2], "cc_ack")
              ELSE [c1 EXCEPT !.pcb = p2]
    IN newack_unacked(c3, ack_partial_or_whole_segment(c3.pcb, c.in.ackno,
                                                       c3.pcb.unacked), persist)

(* "RTT estimation calculations" *)
tcp_receive_rtt(pc, in) ==
    IF pc.rttest # 0 /\ TCP_SEQ_LT(pc.rtseq, in.ackno)
    THEN LET m0 == S16(TcpTicks - pc.rttest)
             m1 == S16(m0 - (pc.sa \div 8))
             sa == S16(pc.sa + m1)
             m2 == IF m1 < 0 THEN S16(-m1) ELSE m1
             m3 == S16(m2 - (pc.sv \div 4))
             sv == S16(pc.sv + m3)
         IN [pc EXCEPT !.t_rttupdated = @ + 1, !.sa = sa, !.sv = sv,
                       !.rto = S16((sa \div 8) + sv), !.rttest = 0]
    ELSE pc

(* the kinds of ACK with everything above lastack taken as new *)
tcp_receive_ackno_unbounded(c, w, right_wnd_edge) ==
    IF TCP_SEQ_LEQ(c.in.ackno, w.pcb.lastack)
    THEN tcp_receive_dupack([c EXCEPT !.pcb = w.pcb], right_wnd_edge)
    ELSE tcp_receive_newack([c EXCEPT !.pcb = w.pcb], w.persist)

(* the three kinds of ACK: at or below lastack, new, beyond snd_nxt; w is
   what the window update returned *)
tcp_receive_ackno(c, w, right_wnd_edge) ==
    IF TCP_SEQ_LEQ(c.in.ackno, w.pcb.lastack)
    THEN tcp_receive_dupack([c EXCEPT !.pcb = w.pcb], right_wnd_edge)
    ELSE IF TCP_SEQ_BETWEEN(c.in.ackno, Add32(w.pcb.lastack, 1), w.pcb.snd_nxt)
    THEN tcp_receive_newack([c EXCEPT !.pcb = w.pcb], w.persist)
    ELSE tcp_send_empty_ack([c EXCEPT !.pcb = [w.pcb EXCEPT !.acked = 0]])

(* the unsent queue as ack_partial_or_whole_segment left it (r), then the
   RTT estimation *)
tcp_receive_unsent(c, r) ==
    [c EXCEPT !.pcb = tcp_receive_rtt([r.pcb EXCEPT !.unsent = r.q], c.in)]

(* "We go through the ->unsent list to see if any of the segments on the
   list are acknowledged by the ACK" *)
tcp_receive_ack_unsent(c) ==
    tcp_receive_unsent(c, ack_partial_or_whole_segment(c.pcb, c.in.ackno, c.pcb.unsent))

(* the if (flags & TCP_ACK) part of tcp_receive *)
tcp_receive_ack(c) ==
    tcp_receive_ack_unsent(
        tcp_receive_ackno(c, tcp_receive_wnd(c.pcb, c.in),
                          Add32(c.pcb.snd_wnd, c.pcb.snd_wl2)))

(* TCP_TCPLEN(&in_data->inseg) *)
inseg_tcplen(in) == in.inseg.len + (IF HasSynFin(in.hflags) THEN 1 ELSE 0)

(* states that precede CLOSE_WAIT in enum tcp_state *)
BeforeCloseWait == {"CLOSED", "LISTEN", "SYN_SENT", "SYN_RCVD", "ESTABLISHED",
                    "FIN_WAIT_1", "FIN_WAIT_2"}

(* only the right edge of the window is tested *)
in_rcv_window_right(pc, seqno) ==
    TCP_SEQ_LEQ(seqno, Sub32(Add32(pc.rcv_nxt, pc.rcv_wnd), 1))

(* seqno inside [rcv_nxt, rcv_nxt + rcv_wnd - 1] *)
in_rcv_window(pc, seqno) ==
    TCP_SEQ_BETWEEN(seqno, pc.rcv_nxt, Sub32(Add32(pc.rcv_nxt, pc.rcv_wnd), 1))

(* "we check if we must trim the first edge" *)
tcp_receive_first_edge(c) ==
    LET in == c.in
        rcv_nxt == c.pcb.rcv_nxt
    IN IF TCP_SEQ_BETWEEN(rcv_nxt, Add32(in.seqno, 1),
                          Sub32(Add32(in.seqno, in.tcplen), 1))
       THEN LET off == Sub32(rcv_nxt, in.seqno)
            IN [c EXCEPT !.in.inseg.p = trim_first_edge(in.inseg.p, off),
                         !.in.inseg.len = Sub32(in.inseg.len, off),
                         !.in.hseqno = rcv_nxt,
                         !.in.seqno = rcv_nxt]
       ELSE IF TCP_SEQ_LT(in.seqno, rcv_nxt) THEN tcp_ack_now(c) ELSE c

(* "other end overran receive window": cut the segment to rcv_wnd *)
tcp_receive_fit_wnd(c) ==
    LET in == [c.in EXCEPT !.tcplen = inseg_tcplen(c.in)]
    IN IF in.tcplen > c.pcb.rcv_wnd
       THEN LET hf == in.hflags \ {"FIN"}
                l == IF "SYN" \in hf THEN Sub32(c.pcb.rcv_wnd, 1) ELSE c.pcb.rcv_wnd
                in1 == [in EXCEPT !.hflags = hf, !.inseg.len = l,
                                  !.inseg.p = pbuf_realloc(in.inseg.p, l)]
            IN [c EXCEPT !.in = [in1 EXCEPT !.tcplen = inseg_tcplen(in1)]]
       ELSE [c EXCEPT !.in = in]

(* "Remove all segments on ooseq that are covered by inseg already":
   [in, next] *)
RECURSIVE inseq_delete_covered(_, _)
inseq_delete_covered(in, next) ==
    IF next # <<>> /\
       TCP_SEQ_GEQ(Add32(in.seqno, in.tcplen), Add32(next[1].seqno, next[1].len))
    THEN inseq_delete_covered(
             IF "FIN" \in next[1].hflags /\ "SYN" \notin in.hflags
             THEN LET in1 == [in EXCEPT !.hflags = @ \cup {"FIN"}]
                  IN [in1 EXCEPT !.tcplen = inseg_tcplen(in1)]
             ELSE in,
             Tail(next))
    ELSE [in |-> in, next |-> next]

(* the arriving segment and the queue left as they are *)
tcp_receive_adjust_ooseq_none(c) == c

(* "Need to trim the incoming segment": r is [in, next] as the while loop
   left them *)
inseq_trim(c, r) ==
    IF r.next # <<>> /\ TCP_SEQ_GT(Add32(r.in.seqno, r.in.tcplen), r.next[1].seqno)
    THEN LET l0 == Sub32(r.next[1].seqno, r.in.seqno)
             l == IF "SYN" \in r.in.hflags THEN Sub32(l0, 1) ELSE l0
             in1 == [r.in EXCEPT !.inseg.len = l,
                                 !.inseg.p = pbuf_realloc(r.in.inseg.p, l)]
         IN [c EXCEPT !.in = [in1 EXCEPT !.tcplen = inseg_tcplen(in1)],
                      !.pcb.ooseq = r.next]
    ELSE [c EXCEPT !.in = r.in, !.pcb.ooseq = r.next]

(* "Received in-sequence data, adjust ooseq data" *)
tcp_receive_adjust_ooseq(c) ==
    IF c.pcb.ooseq = <<>> THEN c
    ELSE IF "FIN" \in c.in.hflags THEN [c EXCEPT !.pcb.ooseq = <<>>]
    ELSE inseq_trim(c, inseq_delete_covered(c.in, c.pcb.ooseq))

(* nothing is taken from ooseq *)
tcp_receive_drain_none(c) == c

(* "check if we have segments on the ->ooseq queue that are now in
   sequence": the while loop that drains them *)
RECURSIVE tcp_receive_drain(_)
tcp_receive_drain(c) ==
    IF c.pcb.ooseq # <<>> /\ c.pcb.ooseq[1].seqno = c.pcb.rcv_nxt
    THEN LET cseg == c.pcb.ooseq[1]
             c1 == IF c.pcb.rcv_wnd >= TCP_TCPLEN(cseg) THEN c
                   ELSE Ev(c, "assert: ooseq tcplen > rcv_wnd")
             fin == "FIN" \in cseg.hflags
         IN tcp_receive_drain(
              [c1 EXCEPT
                 !.in.seqno = cseg.seqno,
                 !.pcb.rcv_nxt = Add32(@, TCP_TCPLEN(cseg)),
                 !.pcb.rcv_wnd = Sub32(@, TCP_TCPLEN(cseg)),
                 !.in.recv_data = IF tot_len(cseg.p) > 0
                                  THEN (IF @ # NULL THEN pbuf_cat(@, cseg.p) ELSE cseg.p)
                                  ELSE @,
                 !.in.recv_flags = IF fin THEN @ \cup {"TF_GOT_FIN"} ELSE @,
                 !.pcb.state = IF fin /\ @ = "ESTABLISHED" THEN "CLOSE_WAIT" ELSE @,
                 !.pcb.ooseq = Tail(@)])
    ELSE c

(* rcv_nxt and rcv_wnd move over the segment, its data becomes recv_data,
   its FIN is noted *)
tcp_receive_accept(c) ==
    LET in == c.in
        c2 == IF c.pcb.rcv_wnd >= in.tcplen THEN c
              ELSE Ev(c, "assert: tcplen > rcv_wnd")
        deliver == tot_len(in.inseg.p) > 0
    IN [c2 EXCEPT
          !.pcb.rcv_nxt = Add32(in.seqno, in.tcplen),
          !.pcb.rcv_wnd = Sub32(@, in.tcplen),
          !.in.recv_data = IF deliver THEN in.inseg.p ELSE @,
          !.in.inseg.p = IF deliver THEN NULL ELSE @,
          !.in.recv_flags = IF "FIN" \in in.hflags
                            THEN @ \cup {"TF_GOT_FIN"} ELSE @]

(* "Acknowledge the segment(s)" *)
tcp_receive_acknowledge(c) ==
    IF (c.in.recv_data # NULL /\ pbuf_clen(c.in.recv_data) > 1) \/ tcp_quickack(c)
    THEN tcp_ack_now(c)
    ELSE tcp_ack(c)

(* the in-sequence branch of tcp_receive *)
tcp_receive_inseq(c) ==
    tcp_receive_acknowledge(
        tcp_receive_drain(
            tcp_receive_accept(tcp_receive_adjust_ooseq(tcp_receive_fit_wnd(c)))))

(* "The sequence number must be within the window (above rcv_nxt and below
   rcv_nxt + rcv_wnd) in order to be further processed" *)
tcp_receive_window(c, seg_copy_ok) ==
    IF in_rcv_window(c.pcb, c.in.seqno)
    THEN IF c.pcb.rcv_nxt = c.in.seqno
         THEN tcp_receive_inseq(c)
         ELSE tcp_receive_ooseq(c, seg_copy_ok)
    ELSE tcp_send_empty_ack(c)

(* the data part entered in every state *)
tcp_receive_data_any_state(c, seg_copy_ok) ==
    IF c.in.tcplen > 0
    THEN tcp_receive_window(tcp_receive_first_edge(c), seg_copy_ok)
    ELSE IF ~in_rcv_window(c.pcb, c.in.seqno) THEN tcp_ack_now(c) ELSE c

(* the data part of tcp_receive; seg_copy_ok: tcp_seg_copy finds memory *)
tcp_receive_data(c, seg_copy_ok) ==
    IF c.in.tcplen > 0 /\ c.pcb.state \in BeforeCloseWait
    THEN tcp_receive_window(tcp_receive_first_edge(c), seg_copy_ok)
    ELSE IF ~in_rcv_window(c.pcb, c.in.seqno) THEN tcp_ack_now(c) ELSE c

tcp_receive(c, seg_copy_ok) ==
    tcp_receive_data(IF "ACK" \in c.in.flags THEN tcp_receive_ack(c) ELSE c,
                     seg_copy_ok)

(***************************************************************************)
(* Option parser.  in.opts is the options area of the header, a sequence   *)
(* of bytes ((TCPH_HDRLEN - 5) << 2 of them); a read past it yields        *)
(* in.beyond, the byte that follows in the buffer.                         *)
(***************************************************************************)
enable_wnd_scale == TRUE
rcv_wnd_scale == 1

opt_byte(in, c) == IF c < Len(in.opts) THEN in.opts[c + 1] ELSE in.beyond

read32_be(in, c) ==
    ((opt_byte(in, c) * 16777216) + (opt_byte(in, c + 1) * 65536)
     + (opt_byte(in, c + 2) * 256) + opt_byte(in, c + 3)) % U32

(* UPDATE_PCB_BY_MSS(pcb, snd_mss) *)
UPDATE_PCB_BY_MSS(pc, snd_mss) == [pc EXCEPT !.mss = snd_mss]

(* case 0x02: a well-formed MSS option *)
parseopt_mss(pc, in, c) ==
    IF "SYN" \in in.flags
    THEN LET mss == (opt_byte(in, c + 2) * 256) + opt_byte(in, c + 3)
         IN UPDATE_PCB_BY_MSS(pc, IF mss > pc.advtsd_mss \/ mss = 0
                                  THEN pc.advtsd_mss ELSE mss)
    ELSE pc

(* case 0x03: a well-formed window-scale option *)
parseopt_wscale(pc, in, c) ==
    IF enable_wnd_scale /\ "SYN" \in in.flags /\ "TF_WND_SCALE" \notin pc.flags
    THEN [pc EXCEPT !.snd_scale = IF opt_byte(in, c + 2) > 14 THEN 14
                                  ELSE opt_byte(in, c + 2),
                    !.rcv_scale = rcv_wnd_scale,
                    !.flags = @ \cup {"TF_WND_SCALE"}]
    ELSE pc

(* case 0x08: a well-formed timestamp option *)
parseopt_ts(pc, in, c) ==
    IF "SYN" \in in.flags
    THEN IF pc.enable_ts_opt
         THEN [pc EXCEPT !.ts_recent = read32_be(in, c + 2),
                         !.flags = @ \cup {"TF_TIMESTAMP"}]
         ELSE pc
    ELSE IF TCP_SEQ_BETWEEN(pc.ts_lastacksent, in.seqno, Add32(in.seqno, in.tcplen))
         THEN [pc EXCEPT !.ts_recent = read32_be(in, c + 2)]
         ELSE pc

(* the for loop going on after a malformed option that lies inside the
   options area, as if the option were well formed *)
RECURSIVE parseopt_walk_on(_, _, _)
parseopt_walk_on(pc, in, c) ==
    IF c >= Len(in.opts) THEN pc
    ELSE LET opt == opt_byte(in, c)
             max_c == Len(in.opts)
         IN CASE opt = 0 -> pc
              [] opt = 1 -> parseopt_walk_on(pc, in, c + 1)
              [] opt = 2 -> IF c + 4 > max_c THEN pc
                            ELSE parseopt_walk_on(parseopt_mss(pc, in, c), in, c + 4)
              [] opt = 3 -> IF c + 3 > max_c THEN pc
                            ELSE parseopt_walk_on(parseopt_wscale(pc, in, c), in, c + 3)
              [] opt = 8 -> IF c + 10 > max_c THEN pc
                            ELSE parseopt_walk_on(parseopt_ts(pc, in, c), in, c + 10)
              [] OTHER -> IF opt_byte(in, c + 1) = 0
                          THEN parseopt_walk_on(pc, in, c + 2)
                          ELSE parseopt_walk_on(pc, in, c + opt_byte(in, c + 1))

(* the for loop of tcp_parseopt, c the offset in the options area *)
RECURSIVE parseopt_walk(_, _, _)
parseopt_walk(pc, in, c) ==
    IF c >= Len(in.opts) THEN pc
    ELSE LET opt == opt_byte(in, c)
             max_c == Len(in.opts)
         IN CASE opt = 0 -> pc
              [] opt = 1 -> parseopt_walk(pc, in, c + 1)
              [] opt = 2 -> IF opt_byte(in, c + 1) # 4 \/ c + 4 > max_c THEN pc
                            ELSE parseopt_walk(parseopt_mss(pc, in, c), in, c + 4)
              [] opt = 3 -> IF opt_byte(in, c + 1) # 3 \/ c + 3 > max_c THEN pc
                            ELSE parseopt_walk(parseopt_wscale(pc, in, c), in, c + 3)
              [] opt = 8 -> IF opt_byte(in, c + 1) # 10 \/ c + 10 > max_c THEN pc
                            ELSE parseopt_walk(parseopt_ts(pc, in, c), in, c + 10)
              [] OTHER -> IF opt_byte(in, c + 1) = 0 THEN pc
                          ELSE parseopt_walk(pc, in, c + opt_byte(in, c + 1))

(* tcp_parseopt(pcb, in_data): the PCB with the options applied *)
tcp_parseopt(pc, in) == parseopt_walk(pc, in, 0)

(* tcp_parseopt_ts(opts, opts_len, &tsval): [found, tsval] *)
RECURSIVE tcp_parseopt_ts(_, _)
tcp_parseopt_ts(in, c) ==
    IF c >= Len(in.opts) THEN [found |-> FALSE, tsval |-> 0]
    ELSE LET opt == opt_byte(in, c)
         IN CASE opt = 8 -> IF opt_byte(in, c + 1) # 10 \/ c + 10 > Len(in.opts)
                            THEN [found |-> FALSE, tsval |-> 0]
                            ELSE [found |-> TRUE, tsval |-> read32_be(in, c + 2)]
              [] opt = 0 -> [found |-> FALSE, tsval |-> 0]
              [] opt = 1 -> tcp_parseopt_ts(in, c + 1)
              [] OTHER -> IF opt_byte(in, c + 1) = 0
                          THEN [found |-> FALSE, tsval |-> 0]
                          ELSE tcp_parseopt_ts(in, c + opt_byte(in, c + 1))

(***************************************************************************)
(* tcp_process: the state machine.  [c, err]                               *)
(***************************************************************************)
set_tcp_state(c, st) == Ev([c EXCEPT !.pcb.state = st], "state:" \o st)

tcp_rst(c) == Ev(c, "tcp_rst")

(* tcp_pcb_purge(pcb): the queues are released, the retransmit timer stopped *)
tcp_pcb_purge(c) ==
    Ev([c EXCEPT !.pcb.ooseq = <<>>, !.pcb.unsent = <<>>, !.pcb.unacked = <<>>,
                 !.pcb.rtime = -1], "tcp_pcb_purge")

(* the connection is gone: nothing of the PCB may be used after this event *)
Gone(c) == Ev(c, "gone")

(* every RST is taken *)
rst_acceptable_always(pc, in) == TRUE

(* "Process incoming RST segments" *)
rst_acceptable(pc, in) ==
    IF pc.state = "SYN_SENT"
    THEN in.ackno = pc.snd_nxt
    ELSE TCP_SEQ_BETWEEN(in.seqno, pc.rcv_nxt, Add32(pc.rcv_nxt, pc.rcv_wnd))

(* the RST ends the call with ERR_RST but TF_RESET is not recorded *)
tcp_process_rst_unflagged(c) == [c |-> c, err |-> "ERR_RST"]

tcp_process_rst(c) ==
    IF rst_acceptable(c.pcb, c.in)
    THEN [c |-> [c EXCEPT !.in.recv_flags = @ \cup {"TF_RESET"},
                          !.pcb.flags = @ \ {"TF_ACK_DELAY"}],
          err |-> "ERR_RST"]
    ELSE [c |-> c, err |-> "ERR_OK"]

(* case SYN_SENT with no RST for a half-open connection *)
tcp_process_syn_sent_no_rst(c, e) ==
    LET in == c.in
        pc == c.pcb
    IN IF "ACK" \in in.flags /\ "SYN" \in in.flags /\ pc.unacked # <<>> /\
          in.ackno = Add32(pc.unacked[1].seqno, 1)
       THEN LET w == SND_WND_SCALE(pc, in.wnd)
                left == Tail(pc.unacked)
                p1 == [pc EXCEPT !.rcv_nxt = Add32(in.seqno, 1),
                                 !.lastack = in.ackno,
                                 !.snd_wnd = w,
                                 !.snd_wnd_max = w,
                                 !.snd_wl1 = Sub32(in.seqno, 1)]
                c1 == set_tcp_state([c EXCEPT !.pcb = p1], "ESTABLISHED")
                c2 == Ev([c1 EXCEPT
                            !.pcb.mss = IF pc.mss < pc.cfg_mss THEN pc.mss ELSE pc.cfg_mss,
                            !.pcb.ssthresh = (IF pc.mss < pc.cfg_mss THEN pc.mss
                                              ELSE pc.cfg_mss) * 10], "cc_conn_init")
                c3 == IF c2.pcb.snd_queuelen > 0 THEN c2
                      ELSE Ev(c2, "assert: pcb->snd_queuelen > 0")
                c4 == [c3 EXCEPT
                         !.pcb.snd_queuelen = Sub32(@, 1),
                         !.pcb.unacked = left,
                         !.pcb.rtime = IF left = <<>> THEN -1 ELSE 0,
                         !.pcb.ticks_since_data_sent = IF left = <<>> THEN -1 ELSE 0,
                         !.pcb.nrtx = IF left = <<>> THEN @ ELSE 0]
                c5 == Ev(c4, "up:connected")
            IN IF e.connected = "ERR_ABRT"
               THEN [c |-> Gone(c5), err |-> "ERR_ABRT"]
               ELSE [c |-> tcp_ack_now(c5), err |-> "ERR_OK"]
       ELSE IF "ACK" \in in.flags
       THEN [c |-> c, err |-> "ERR_OK"]
       ELSE [c |-> c, err |-> "ERR_OK"]

(* case SYN_SENT *)
tcp_process_syn_sent(c, e) ==
    LET in == c.in
        pc == c.pcb
    IN IF "ACK" \in in.flags /\ "SYN" \in in.flags /\ pc.unacked # <<>> /\
          in.ackno = Add32(pc.unacked[1].seqno, 1)
       THEN LET w == SND_WND_SCALE(pc, in.wnd)
                left == Tail(pc.unacked)
                p1 == [pc EXCEPT !.rcv_nxt = Add32(in.seqno, 1),
                                 !.lastack = in.ackno,
                                 !.snd_wnd = w,
                                 !.snd_wnd_max = w,
                                 !.snd_wl1 = Sub32(in.seqno, 1)]
                c1 == set_tcp_state([c EXCEPT !.pcb = p1], "ESTABLISHED")
                c2 == Ev([c1 EXCEPT
                            !.pcb.mss = IF pc.mss < pc.cfg_mss THEN pc.mss ELSE pc.cfg_mss,
                            !.pcb.ssthresh = (IF pc.mss < pc.cfg_mss THEN pc.mss
                                              ELSE pc.cfg_mss) * 10], "cc_conn_init")
                c3 == IF c2.pcb.snd_queuelen > 0 THEN c2
                      ELSE Ev(c2, "assert: pcb->snd_queuelen > 0")
                c4 == [c3 EXCEPT
                         !.pcb.snd_queuelen = Sub32(@, 1),
                         !.pcb.unacked = left,
                         !.pcb.rtime = IF left = <<>> THEN -1 ELSE 0,
                         !.pcb.ticks_since_data_sent = IF left = <<>> THEN -1 ELSE 0,
                         !.pcb.nrtx = IF left = <<>> THEN @ ELSE 0]
                c5 == Ev(c4, "up:connected")
            IN IF e.connected = "ERR_ABRT"
               THEN [c |-> Gone(c5), err |-> "ERR_ABRT"]
               ELSE [c |-> tcp_ack_now(c5), err |-> "ERR_OK"]
       ELSE IF "ACK" \in in.flags
       THEN [c |-> tcp_rst(c), err |-> "ERR_OK"]
       ELSE [c |-> c, err |-> "ERR_OK"]

(* SYN_RCVD after tcp_receive: "Prevent ACK for SYN to generate a sent
   event", the congestion window, a FIN that came with the ACK *)
tcp_process_syn_rcvd_received(c) ==
    LET c3 == Ev([c EXCEPT !.pcb.acked = IF @ # 0 THEN @ - 1 ELSE @], "cc_conn_init")
    IN [c |-> IF "TF_GOT_FIN" \in c.in.recv_flags
              THEN set_tcp_state(tcp_ack_now(c3), "CLOSE_WAIT")
              ELSE c3,
        err |-> "ERR_OK"]

(* an ackno from lastack on is taken *)
syn_rcvd_ack_from_lastack(pc, in) == TCP_SEQ_BETWEEN(in.ackno, pc.lastack, pc.snd_nxt)

(* "incoming ACK-segment that acknowledges our SYN" *)
syn_rcvd_ack(pc, in) == TCP_SEQ_BETWEEN(in.ackno, Add32(pc.lastack, 1), pc.snd_nxt)

(* case SYN_RCVD *)
tcp_process_syn_rcvd(c, e) ==
    LET in == c.in
        pc == c.pcb
    IN IF "ACK" \in in.flags
       THEN IF syn_rcvd_ack(pc, in)
            THEN LET c1 == Ev(set_tcp_state(c, "ESTABLISHED"), "up:accept")
                 IN IF e.accept # "ERR_OK"
                    THEN [c |-> Gone(IF e.accept # "ERR_ABRT"
                                     THEN Ev(c1, "tcp_abort") ELSE c1),
                          err |-> "ERR_ABRT"]
                    ELSE tcp_process_syn_rcvd_received(tcp_receive(c1, e.seg_copy_ok))
            ELSE [c |-> tcp_rst(c), err |-> "ERR_OK"]
       ELSE IF "SYN" \in in.flags /\ in.seqno = Sub32(pc.rcv_nxt, 1)
       THEN [c |-> Ev(c, "tcp_rexmit"), err |-> "ERR_OK"]
       ELSE [c |-> c, err |-> "ERR_OK"]

(* every segment with the ACK flag is taken for the ACK of our FIN *)
acks_our_fin_any_ack(c) == "ACK" \in c.in.flags

(* ACK flag set and ackno == snd_nxt: "the ACK for our FIN" *)
acks_our_fin(c) == "ACK" \in c.in.flags /\ c.in.ackno = c.pcb.snd_nxt

(* a FIN and the ACK of our FIN change nothing *)
tcp_process_received_none(st, c1) == c1

(* the switch on the state st, from ESTABLISHED on, c1 being the call after
   tcp_receive *)
tcp_process_received(st, c1) ==
    LET fin == "TF_GOT_FIN" \in c1.in.recv_flags
    IN CASE st \in {"CLOSE_WAIT", "ESTABLISHED"} ->
              IF fin THEN set_tcp_state(tcp_ack_now(c1), "CLOSE_WAIT") ELSE c1
         [] st = "FIN_WAIT_1" ->
              IF fin
              THEN IF acks_our_fin(c1)
                   THEN set_tcp_state(tcp_pcb_purge(tcp_ack_now(c1)), "TIME_WAIT")
                   ELSE set_tcp_state(tcp_ack_now(c1), "CLOSING")
              ELSE IF acks_our_fin(c1) THEN set_tcp_state(c1, "FIN_WAIT_2") ELSE c1
         [] st = "FIN_WAIT_2" ->
              IF fin THEN set_tcp_state(tcp_pcb_purge(tcp_ack_now(c1)), "TIME_WAIT")
              ELSE c1
         [] st = "CLOSING" ->
              IF acks_our_fin(c1) THEN set_tcp_state(tcp_pcb_purge(c1), "TIME_WAIT")
              ELSE c1
         [] st = "LAST_ACK" ->
              IF acks_our_fin(c1)
              THEN [c1 EXCEPT !.in.recv_flags = @ \cup {"TF_CLOSED"}]
              ELSE c1

(* the ACK of our FIN in LAST_ACK sets the state to CLOSED *)
tcp_process_synchronized_closed(c, e) ==
    IF c.pcb.state \in {"CLOSE_WAIT", "ESTABLISHED", "FIN_WAIT_1", "FIN_WAIT_2",
                        "CLOSING", "LAST_ACK"}
    THEN LET c1 == tcp_process_received(c.pcb.state, tcp_receive(c, e.seg_copy_ok))
         IN IF "TF_CLOSED" \in c1.in.recv_flags THEN set_tcp_state(c1, "CLOSED") ELSE c1
    ELSE c

(* the cases of the switch that begin with tcp_receive *)
tcp_process_synchronized(c, e) ==
    IF c.pcb.state \in {"CLOSE_WAIT", "ESTABLISHED", "FIN_WAIT_1", "FIN_WAIT_2",
                        "CLOSING", "LAST_ACK"}
    THEN tcp_process_received(c.pcb.state, tcp_receive(c, e.seg_copy_ok))
    ELSE c

(* "Do different things depending on the TCP state" *)
tcp_process_state(c, e) ==
    CASE c.pcb.state = "SYN_SENT" -> tcp_process_syn_sent(c, e)
      [] c.pcb.state = "SYN_RCVD" -> tcp_process_syn_rcvd(c, e)
      [] OTHER -> [c |-> tcp_process_synchronized(c, e), err |-> "ERR_OK"]

(* tcp_process with a SYN taken through the state machine like any other
   segment *)
tcp_process_syn_unchecked(c, e) ==
    IF "RST" \in c.in.flags THEN tcp_process_rst(c)
    ELSE LET c1 == [c EXCEPT !.pcb.tmr = IF "TF_RXCLOSED" \notin c.pcb.flags
                                         THEN TcpTicks ELSE @,
                             !.pcb.keep_cnt_sent = 0]
         IN tcp_process_state([c1 EXCEPT !.pcb = tcp_parseopt(c1.pcb, c1.in)], e)

(* tcp_process(pcb, in_data): [c, err] *)
tcp_process(c, e) ==
    IF "RST" \in c.in.flags THEN tcp_process_rst(c)
    ELSE IF "SYN" \in c.in.flags /\ c.pcb.state \notin {"SYN_SENT", "SYN_RCVD"}
    THEN [c |-> tcp_ack_now(c), err |-> "ERR_OK"]
    ELSE LET c1 == [c EXCEPT !.pcb.tmr = IF "TF_RXCLOSED" \notin c.pcb.flags
                                         THEN TcpTicks ELSE @,
                             !.pcb.keep_cnt_sent = 0]
         IN tcp_process_state([c1 EXCEPT !.pcb = tcp_parseopt(c1.pcb, c1.in)], e)

(***************************************************************************)
(* L3_level_tcp_input.  An inbound segment sg: [seqno, ackno, flags, wnd,  *)
(* len (payload bytes), frag1 (bytes in the first pbuf of the chain, 0 for *)
(* a single pbuf), opts, beyond, short (too short to hold a TCP header)].  *)
(***************************************************************************)
RECURSIVE byte_run(_, _)
byte_run(first, n) == IF n = 0 THEN <<>> ELSE <<first>> \o byte_run(Add32(first, 1), n - 1)

(* the payload as the peer numbers it: a SYN takes the first sequence number *)
payload_chain(sg) ==
    LET first == IF "SYN" \in sg.flags THEN Add32(sg.seqno, 1) ELSE sg.seqno
        all == byte_run(first, sg.len)
    IN IF sg.frag1 > 0 /\ sg.frag1 < sg.len
       THEN <<SubSeq(all, 1, sg.frag1), SubSeq(all, sg.frag1 + 1, sg.len)>>
       ELSE <<all>>

(* the setting up of in_data and in_data.inseg *)
new_in_data(sg) ==
    [seqno |-> sg.seqno, hseqno |-> sg.seqno, ackno |-> sg.ackno, wnd |-> sg.wnd,
     flags |-> sg.flags, hflags |-> sg.flags,
     tcplen |-> sg.len + (IF HasSynFin(sg.flags) THEN 1 ELSE 0),
     inseg |-> [len |-> sg.len, p |-> payload_chain(sg)],
     recv_data |-> NULL, recv_flags |-> {},
     opts |-> sg.opts, beyond |-> sg.beyond,
     delivered |-> <<>>, sent |-> 0]

(* label aborted: the write of pcb->is_in_input and the release of inseg.p *)
input_aborted(c) ==
    LET c1 == Ev([c EXCEPT !.pcb.is_in_input = 0, !.in.recv_data = NULL],
                 "write:is_in_input")
    IN IF c1.in.inseg.p # NULL
       THEN Ev([c1 EXCEPT !.in.inseg.p = NULL], "pbuf_free:inseg.p")
       ELSE c1

(* the EOF upcall with tcp_output called whatever the upcall returned *)
input_closed_output_always(c, e) ==
    IF "TF_GOT_FIN" \in c.in.recv_flags
    THEN Ev(Ev([c EXCEPT !.pcb.rcv_wnd = IF @ # c.pcb.rcv_wnd_max THEN Add32(@, 1) ELSE @,
                         !.pcb.is_in_input = 0], "up:closed"), "tcp_output")
    ELSE Ev([c EXCEPT !.pcb.is_in_input = 0], "tcp_output")

(* "If a FIN segment was received, we call the callback function with a
   NULL buffer to indicate EOF", then tcp_output *)
input_closed(c, e) ==
    IF "TF_GOT_FIN" \in c.in.recv_flags
    THEN LET c1 == Ev([c EXCEPT !.pcb.rcv_wnd = IF @ # c.pcb.rcv_wnd_max
                                                THEN Add32(@, 1) ELSE @],
                      "up:closed")
         IN IF e.closed = "ERR_ABRT" THEN Gone(c1)
            ELSE Ev([c1 EXCEPT !.pcb.is_in_input = 0], "tcp_output")
    ELSE Ev([c EXCEPT !.pcb.is_in_input = 0], "tcp_output")

(* the recv upcall made without the test of TF_RXCLOSED *)
input_recv_rx_open(c, e) ==
    IF c.in.recv_data # NULL
    THEN LET c1 == Ev([c EXCEPT !.in.delivered = pbuf_bytes(c.in.recv_data)], "up:recv")
         IN IF e.recv = "ERR_ABRT" THEN Gone(c1)
            ELSE IF e.recv # "ERR_OK"
            THEN input_closed(
                     Ev([c1 EXCEPT !.pcb.rcv_wnd = Add32(@, tot_len(c.in.recv_data))],
                        "pbuf_free:recv_data"), e)
            ELSE input_closed(c1, e)
    ELSE input_closed(c, e)

(* "Notify application that data has been received" *)
input_recv(c, e) ==
    IF c.in.recv_data # NULL
    THEN IF "TF_RXCLOSED" \in c.pcb.flags
         THEN Gone(Ev(Ev(c, "pbuf_free:recv_data"), "tcp_abort"))
         ELSE LET c1 == Ev([c EXCEPT !.in.delivered = pbuf_bytes(c.in.recv_data)],
                           "up:recv")
              IN IF e.recv = "ERR_ABRT" THEN Gone(c1)
                 ELSE IF e.recv # "ERR_OK"
                 THEN input_closed(
                          Ev([c1 EXCEPT !.pcb.rcv_wnd =
                                            Add32(@, tot_len(c.in.recv_data))],
                             "pbuf_free:recv_data"), e)
                 ELSE input_closed(c1, e)
    ELSE input_closed(c, e)

(* what follows tcp_process when TF_CLOSED is not looked at *)
input_after_process_closed_ignored(r, e) ==
    LET c == r.c
    IN IF r.err = "ERR_ABRT" THEN c
       ELSE IF "TF_RESET" \in c.in.recv_flags
       THEN Ev(Ev(Ev(c, "up:err"), "tcp_pcb_remove"), "gone")
       ELSE IF c.pcb.acked > 0
       THEN LET c1 == Ev([c EXCEPT !.in.sent = c.pcb.acked], "up:sent")
            IN IF e.sent = "ERR_ABRT" THEN Gone(c1) ELSE input_recv(c1, e)
       ELSE input_recv(c, e)

(* what follows tcp_process for a PCB in an active state *)
input_after_process(r, e) ==
    LET c == r.c
    IN IF r.err = "ERR_ABRT" THEN c
       ELSE IF "TF_RESET" \in c.in.recv_flags
       THEN Ev(Ev(Ev(c, "up:err"), "tcp_pcb_remove"), "gone")
       ELSE IF "TF_CLOSED" \in c.in.recv_flags
       THEN Ev(Ev(c, "tcp_pcb_remove"), "gone")
       ELSE IF c.pcb.acked > 0
       THEN LET c1 == Ev([c EXCEPT !.in.sent = c.pcb.acked], "up:sent")
            IN IF e.sent = "ERR_ABRT" THEN Gone(c1) ELSE input_recv(c1, e)
       ELSE input_recv(c, e)

(* the branch of L3_level_tcp_input for PCB_IN_ACTIVE_STATE(pcb) *)
tcp_input_active(pc, sg, e) ==
    LET c0 == [pcb |-> [pc EXCEPT !.is_in_input = 1], in |-> new_in_data(sg), ev |-> <<>>]
    IN input_aborted(input_after_process(tcp_process(c0, e), e))

(***************************************************************************)
(* Passive open and TIME_WAIT                                              *)
(***************************************************************************)
TCP_WND == 3
ISS == U32 - 2

(* TCP_WND_SCALED(pcb): TCP_WND << rcv_scale *)
TCP_WND_SCALED(pc) == TCP_WND * (2 ^ pc.rcv_scale)

(* the PCB that tcp_alloc / TCP_EVENT_CLONE_PCB / tcp_pcb_recycle hand out:
   nothing sent, nothing received, no flags, timers stopped *)
fresh_pcb(cfg) ==
    [state |-> "CLOSED", flags |-> {},
     rcv_nxt |-> 0, rcv_wnd |-> TCP_WND, rcv_wnd_max |-> TCP_WND,
     snd_nxt |-> ISS, lastack |-> ISS, snd_wl1 |-> 0, snd_wl2 |-> ISS,
     snd_wnd |-> TCP_WND, snd_wnd_max |-> TCP_WND, snd_buf |-> 0, acked |-> 0,
     dupacks |-> 0, ssthresh |-> TCP_WND, mss |-> cfg.cfg_mss,
     advtsd_mss |-> cfg.cfg_mss, cfg_mss |-> cfg.cfg_mss,
     sa |-> 0, sv |-> 12, rto |-> 12, rttest |-> 0, rtseq |-> 0, t_rttupdated |-> 0,
     nrtx |-> 0, rtime |-> -1, ticks_since_data_sent |-> -1, tmr |-> 0,
     persist_backoff |-> 0, persist_cnt |-> 0, keep_cnt_sent |-> 0,
     snd_scale |-> 0, rcv_scale |-> 0, ts_recent |-> 0, ts_lastacksent |-> 0,
     enable_ts_opt |-> cfg.enable_ts_opt, snd_queuelen |-> 0,
     unacked |-> <<>>, unsent |-> <<>>, ooseq |-> <<>>,
     is_in_input |-> 0, quickack |-> cfg.quickack, reuse_cb |-> cfg.reuse_cb]

(* tcp_enqueue_flags(pcb, TCP_SYN | TCP_ACK) followed by tcp_output(pcb):
   the SYN|ACK is on the wire, waits in unacked, and takes one sequence number *)
syn_ack_sent(pc) ==
    [pc EXCEPT !.unacked = <<[seqno |-> pc.snd_nxt, len |-> 0, tcp_flags |-> {"SYN", "ACK"},
                              zc |-> FALSE, p |-> <<TCP_HLEN>>]>>,
               !.snd_nxt = Add32(@, 1),
               !.snd_queuelen = 1,
               !.rtime = 0]

(* the windows and the MSS, set once the options of the SYN are parsed *)
syn_received_windows(pc, in) ==
    LET w == SND_WND_SCALE(pc, in.wnd)
    IN UPDATE_PCB_BY_MSS([pc EXCEPT !.rcv_wnd = TCP_WND_SCALED(pc),
                                    !.rcv_wnd_max = TCP_WND_SCALED(pc),
                                    !.snd_wnd = w, !.snd_wnd_max = w, !.ssthresh = w],
                         IF pc.mss < pc.advtsd_mss THEN pc.mss ELSE pc.advtsd_mss)

(* rcv_nxt is the sequence number of the SYN itself *)
syn_received_setup_seqno(pc, in) ==
    syn_received_windows(
        tcp_parseopt([pc EXCEPT !.state = "SYN_RCVD",
                                !.rcv_nxt = in.seqno,
                                !.snd_wl1 = Sub32(in.seqno, 1),
                                !.snd_scale = 0,
                                !.rcv_scale = 0,
                                !.mss = pc.cfg_mss,
                                !.advtsd_mss = pc.cfg_mss], in), in)

(* the fields that tcp_listen_input and tcp_pcb_reuse both set from the SYN *)
syn_received_setup(pc, in) ==
    syn_received_windows(
        tcp_parseopt([pc EXCEPT !.state = "SYN_RCVD",
                                !.rcv_nxt = Add32(in.seqno, 1),
                                !.snd_wl1 = Sub32(in.seqno, 1),
                                !.snd_scale = 0,
                                !.rcv_scale = 0,
                                !.mss = pc.cfg_mss,
                                !.advtsd_mss = pc.cfg_mss], in), in)

(* tcp_listen_input with only the RST ignored *)
tcp_listen_input_fin_unchecked(lp, in, e) ==
    IF "RST" \in in.flags THEN [npcb |-> NULL, ev |-> <<>>]
    ELSE IF "ACK" \in in.flags THEN [npcb |-> NULL, ev |-> <<"tcp_rst">>]
    ELSE IF "SYN" \in in.flags
    THEN IF ~e.clone_ok THEN [npcb |-> NULL, ev |-> <<"clone_pcb">>]
         ELSE LET npcb == syn_received_setup(fresh_pcb(lp), in)
              IN IF ~e.syn_received_ok
                 THEN [npcb |-> NULL, ev |-> <<"clone_pcb", "syn_received">>]
                 ELSE IF e.enqueue_ok
                 THEN [npcb |-> syn_ack_sent(npcb),
                       ev |-> <<"clone_pcb", "syn_received", "enqueue_synack",
                                "tcp_output", "accepted_pcb">>]
                 ELSE [npcb |-> NULL,
                       ev |-> <<"clone_pcb", "syn_received", "enqueue_synack",
                                "tcp_abandon", "gone", "accepted_pcb">>]
    ELSE [npcb |-> NULL, ev |-> <<>>]

(* tcp_listen_input(pcb, in_data): [npcb (NULL when none is left), ev] *)
tcp_listen_input(lp, in, e) ==
    IF in.flags \cap {"RST", "FIN"} # {} THEN [npcb |-> NULL, ev |-> <<>>]
    ELSE IF "ACK" \in in.flags THEN [npcb |-> NULL, ev |-> <<"tcp_rst">>]
    ELSE IF "SYN" \in in.flags
    THEN IF ~e.clone_ok THEN [npcb |-> NULL, ev |-> <<"clone_pcb">>]
         ELSE LET npcb == syn_received_setup(fresh_pcb(lp), in)
              IN IF ~e.syn_received_ok
                 THEN [npcb |-> NULL, ev |-> <<"clone_pcb", "syn_received">>]
                 ELSE IF e.enqueue_ok
                 THEN [npcb |-> syn_ack_sent(npcb),
                       ev |-> <<"clone_pcb", "syn_received", "enqueue_synack",
                                "tcp_output", "accepted_pcb">>]
                 ELSE [npcb |-> NULL,
                       ev |-> <<"clone_pcb", "syn_received", "enqueue_synack",
                                "tcp_abandon", "gone", "accepted_pcb">>]
    ELSE [npcb |-> NULL, ev |-> <<>>]

(* tcp_pcb_reuse from the call of syn_tw_handled_cb on *)
tcp_pcb_reuse_handled(c, e) ==
    IF ~e.reuse_ok THEN c
    ELSE IF ~e.enqueue_ok
    THEN Gone(Ev(Ev(c, "enqueue_synack"), "tcp_abandon"))
    ELSE Ev(Ev([c EXCEPT !.pcb = syn_ack_sent(c.pcb)], "enqueue_synack"), "tcp_output")

(* tcp_pcb_reuse(pcb, in_data) *)
tcp_pcb_reuse(c, e) ==
    tcp_pcb_reuse_handled(
        Ev([c EXCEPT !.pcb = syn_received_setup(fresh_pcb(c.pcb), c.in)],
           "up:syn_tw_handled"), e)

(* a timestamp equal to the recorded one counts as newer *)
timewait_reusable_equal_newer(pc, in) ==
    LET ts == tcp_parseopt_ts(in, 0)
        both == ts.found /\ "TF_TIMESTAMP" \in pc.flags
    IN /\ \/ both /\ pc.ts_recent <= ts.tsval
          \/ ~both /\ TCP_SEQ_GEQ(in.seqno, pc.rcv_nxt)
       /\ pc.reuse_cb

(* reusable whatever the sequence number of the SYN *)
timewait_reusable_any_seqno(pc, in) == pc.reuse_cb

(* "Check whether socket can be reused according to RFC 6191" *)
timewait_reusable(pc, in) ==
    LET ts == tcp_parseopt_ts(in, 0)
        both == ts.found /\ "TF_TIMESTAMP" \in pc.flags
    IN /\ \/ both /\ pc.ts_recent < ts.tsval
          \/ (~both \/ pc.ts_recent = ts.tsval) /\ TCP_SEQ_GEQ(in.seqno, pc.rcv_nxt)
       /\ pc.reuse_cb

(* tcp_timewait_input without the test of the RST bit *)
tcp_timewait_input_rst_unchecked(c, e) ==
    IF c.in.flags \cap {"SYN", "ACK"} = {"SYN"}
    THEN IF timewait_reusable(c.pcb, c.in) THEN tcp_pcb_reuse(c, e) ELSE c
    ELSE LET c1 == IF "FIN" \in c.in.flags THEN [c EXCEPT !.pcb.tmr = TcpTicks] ELSE c
         IN IF c1.in.tcplen > 0
            THEN IF {"SYN", "ACK"} \subseteq c1.in.flags
                 THEN tcp_rst(c1)
                 ELSE Ev([c1 EXCEPT !.pcb.flags = @ \cup {"TF_ACK_NOW"}], "tcp_output")
            ELSE c1

(* tcp_timewait_input(pcb, in_data) *)
tcp_timewait_input(c, e) ==
    IF "RST" \in c.in.flags THEN c
    ELSE IF c.in.flags \cap {"SYN", "ACK"} = {"SYN"}
    THEN IF timewait_reusable(c.pcb, c.in) THEN tcp_pcb_reuse(c, e) ELSE c
    ELSE LET c1 == IF "FIN" \in c.in.flags THEN [c EXCEPT !.pcb.tmr = TcpTicks] ELSE c
         IN IF c1.in.tcplen > 0
            THEN IF {"SYN", "ACK"} \subseteq c1.in.flags
                 THEN tcp_rst(c1)
                 ELSE Ev([c1 EXCEPT !.pcb.flags = @ \cup {"TF_ACK_NOW"}], "tcp_output")
            ELSE c1

(* the branch of L3_level_tcp_input for PCB_IN_TIME_WAIT_STATE(pcb) *)
tcp_input_timewait(pc, sg, e) ==
    Ev(tcp_timewait_input([pcb |-> pc, in |-> new_in_data(sg), ev |-> <<>>], e),
       "pbuf_free:p")

(* PCB_IN_ACTIVE_STATE(pcb): state > LISTEN && state < TIME_WAIT *)
PCB_IN_ACTIVE_STATE(pc) ==
    pc.state \in {"SYN_SENT", "SYN_RCVD", "ESTABLISHED", "FIN_WAIT_1", "FIN_WAIT_2",
                  "CLOSE_WAIT", "CLOSING", "LAST_ACK"}

(* L3_level_tcp_input(p, pcb) for the PCB of a connection *)
L3_level_tcp_input(pc, sg, e) ==
    IF sg.short
    THEN [pcb |-> pc, in |-> new_in_data(sg), ev |-> <<"pbuf_free:p">>]
    ELSE IF PCB_IN_ACTIVE_STATE(pc) THEN tcp_input_active(pc, sg, e)
    ELSE IF pc.state = "TIME_WAIT" THEN tcp_input_timewait(pc, sg, e)
    ELSE [pcb |-> pc, in |-> new_in_data(sg), ev |-> <<"pbuf_free:p">>]

(* L3_level_tcp_input(p, pcb) for a PCB in LISTEN *)
L3_level_tcp_input_listen(lp, sg, e) ==
    IF sg.short
    THEN [lpcb |-> lp, npcb |-> NULL, ev |-> <<"pbuf_free:p">>]
    ELSE LET r == tcp_listen_input(lp, new_in_data(sg), e)
         IN [lpcb |-> lp, npcb |-> r.npcb, ev |-> Append(r.ev, "pbuf_free:p")]

(***************************************************************************)
(* The system: one connection, the segments that arrive for it, and what   *)
(* the application and the collaborators answer.                           *)
(***************************************************************************)
MaxLen == 2
MaxSteps == 3
IRS == U32 - 3

Range(s) == {s[i] : i \in DOMAIN s}
Count(s, e) == Cardinality({i \in DOMAIN s : s[i] = e})

(* every collaborator succeeds, every upcall returns ERR_OK *)
AllOk ==
    [connected |-> "ERR_OK", accept |-> "ERR_OK", sent |-> "ERR_OK", recv |-> "ERR_OK",
     closed |-> "ERR_OK", seg_copy_ok |-> TRUE, clone_ok |-> TRUE,
     syn_received_ok |-> TRUE, enqueue_ok |-> TRUE, reuse_ok |-> TRUE]

Segment(seqno, ackno, flags, len, frag1, wnd, opts) ==
    [seqno |-> seqno, ackno |-> ackno, flags |-> flags, wnd |-> wnd, len |-> len,
     frag1 |-> frag1, opts |-> opts, beyond |-> 0, short |-> FALSE]

NoSeg == Segment(0, 0, {}, 0, 0, 0, <<>>)

(* the configuration a PCB is created with *)
Config == [cfg_mss |-> 8, enable_ts_opt |-> TRUE, quickack |-> FALSE, reuse_cb |-> TRUE]

Listener == [state |-> "LISTEN", cfg_mss |-> Config.cfg_mss,
             enable_ts_opt |-> Config.enable_ts_opt, quickack |-> Config.quickack,
             reuse_cb |-> Config.reuse_cb]

(* a connection after the handshake: our SYN acknowledged, the peer's received *)
established_pcb ==
    [fresh_pcb(Config) EXCEPT !.state = "ESTABLISHED",
                              !.rcv_nxt = Add32(IRS, 1),
                              !.snd_nxt = Add32(ISS, 1),
                              !.lastack = Add32(ISS, 1),
                              !.snd_wl1 = IRS,
                              !.snd_wl2 = Add32(ISS, 1),
                              !.tmr = TcpTicks]

NoOut(pc) == [op |-> "none", ev |-> <<>>, delivered |-> <<>>, sent |-> 0,
              recv_flags |-> {}, old |-> pc]

NoHist == [steps |-> 0, accepts |-> 0, incarnation |-> 0, run |-> 0, runc |-> 0,
           handed |-> 0, fins |-> 0, eofs |-> 0]

(* a segment with no ACK-side effect on a connection that has sent nothing *)
IsQualifyingDup(pc, sg) ==
    /\ ~sg.short
    /\ pc.state \in {"ESTABLISHED", "FIN_WAIT_1", "FIN_WAIT_2", "CLOSE_WAIT",
                     "CLOSING", "LAST_ACK"}
    /\ sg.flags = {"ACK"}
    /\ sg.len = 0
    /\ sg.ackno = pc.lastack
    /\ pc.rtime >= 0
    /\ LET w == tcp_receive_wnd(pc, new_in_data(sg)).pcb
       IN Add32(w.snd_wl2, w.snd_wnd) = Add32(pc.snd_wl2, pc.snd_wnd)

(* an ACK that tcp_receive takes as old (at or below lastack) or as new
   (above lastack, at most snd_nxt) *)
IsCountedAck(pc, sg) ==
    /\ ~sg.short
    /\ pc.state \in {"ESTABLISHED", "FIN_WAIT_1", "FIN_WAIT_2", "CLOSE_WAIT",
                     "CLOSING", "LAST_ACK"}
    /\ "ACK" \in sg.flags /\ sg.flags \cap {"RST", "SYN"} = {}
    /\ TCP_SEQ_LEQ(sg.ackno, pc.snd_nxt)

(* the history after a call on pc with segment sg that produced events ev,
   handed n bytes to the application and left recv_flags rf; fins and eofs
   count the FINs accepted and the EOF upcalls of the present connection *)
NextHist(pc, sg, ev, n, rf) ==
    [hist EXCEPT !.steps = @ + 1,
                 !.handed = @ + n,
                 !.incarnation = IF "up:syn_tw_handled" \in Range(ev) THEN @ + 1 ELSE @,
                 !.accepts = (IF "up:syn_tw_handled" \in Range(ev) THEN 0 ELSE @)
                             + Count(ev, "up:accept"),
                 !.run = IF IsQualifyingDup(pc, sg) THEN @ + 1 ELSE 0,
                 !.runc = IF IsQualifyingDup(pc, sg) THEN @ + 1
                          ELSE IF IsCountedAck(pc, sg) THEN 0 ELSE @,
                 !.fins = IF "up:syn_tw_handled" \in Range(ev) THEN 0
                          ELSE IF "TF_GOT_FIN" \in rf THEN @ + 1 ELSE @,
                 !.eofs = IF "up:syn_tw_handled" \in Range(ev) THEN 0
                          ELSE @ + Count(ev, "up:closed")]

(* the call of L3_level_tcp_input for segment sg has run and left c *)
Called(sg, e, c) ==
    /\ pcb' = c.pcb
    /\ alive' = IF "gone" \in Range(c.ev) THEN "gone" ELSE "live"
    /\ seg' = sg
    /\ env' = e
    /\ out' = [op |-> "input", ev |-> c.ev, delivered |-> c.in.delivered,
               sent |-> c.in.sent, recv_flags |-> c.in.recv_flags, old |-> pcb]
    /\ hist' = NextHist(pcb, sg, c.ev, Len(c.in.delivered), c.in.recv_flags)
    /\ UNCHANGED lpcb

(* a segment sg arrives for the connection and L3_level_tcp_input runs *)
Input(sg, e) ==
    /\ alive = "live"
    /\ out.op = "none"
    /\ Called(sg, e, L3_level_tcp_input(pcb, sg, e))

(* L3_level_tcp_input has returned: in_data, a local of the call, is no more *)
Return ==
    /\ out.op # "none"
    /\ seg' = NoSeg
    /\ env' = AllOk
    /\ out' = NoOut(pcb)
    /\ UNCHANGED <<pcb, lpcb, alive, hist>>

(* tcp_recved: the application has consumed what it was given *)
AppRecved ==
    /\ alive = "live"
    /\ out.op = "none"
    /\ hist.steps < MaxSteps
    /\ pcb.rcv_wnd # pcb.rcv_wnd_max
    /\ pcb' = [pcb EXCEPT !.rcv_wnd = pcb.rcv_wnd_max]
    /\ out' = NoOut(pcb')
    /\ hist' = [hist EXCEPT !.steps = @ + 1]
    /\ UNCHANGED <<lpcb, alive, seg, env>>

(***************************************************************************)
(* Data reception: an established connection and segments around rcv_nxt   *)
(***************************************************************************)
DataEnv ==
    {AllOk, [AllOk EXCEPT !.recv = "ERR_MEM"], [AllOk EXCEPT !.recv = "ERR_ABRT"],
     [AllOk EXCEPT !.seg_copy_ok = FALSE]}

DataFlags == {{"ACK"}, {"ACK", "FIN"}}

DataInit ==
    /\ pcb = established_pcb
    /\ lpcb = Listener
    /\ alive = "live"
    /\ seg = NoSeg
    /\ env = AllOk
    /\ out = NoOut(pcb)
    /\ hist = NoHist

DataInput ==
    \E d \in (0 - MaxLen)..(TCP_WND - 1), len \in 0..MaxLen, frag1 \in 0..1,
       fl \in DataFlags, e \in DataEnv :
        /\ hist.steps < MaxSteps
        /\ frag1 = 0 \/ frag1 < len
        /\ Input(Segment(Off32(pcb.rcv_nxt, d), pcb.snd_nxt, fl, len, frag1,
                         pcb.snd_wnd, <<>>), e)

DataNext == DataInput \/ AppRecved \/ Return

DataSpec == DataInit /\ [][DataNext]_vars

(***************************************************************************)
(* Claims on data reception                                                *)
(***************************************************************************)
GotFin == IF "TF_GOT_FIN" \in out.recv_flags THEN 1 ELSE 0

(* C1: whatever arrived out of order and was filled in later, the bytes one
   call hands to the recv upcall are exactly the run of sequence numbers from
   the old rcv_nxt up to the new one (less the FIN's number), in order, with
   no gap and no repeat; a call that hands over nothing moves rcv_nxt by a
   FIN at most; so over the connection's life every byte below rcv_nxt has
   been handed over exactly once. *)
C1_DeliveredExactlyOnce ==
    /\ out.op = "input" =>
          /\ out.delivered = byte_run(out.old.rcv_nxt, Len(out.delivered))
          /\ pcb.rcv_nxt = Add32(out.old.rcv_nxt, Len(out.delivered) + GotFin)
          /\ (out.delivered # <<>>) = ("up:recv" \in Range(out.ev))
          /\ Count(out.ev, "up:recv") <= 1
    /\ Sub32(pcb.rcv_nxt, established_pcb.rcv_nxt) =
           hist.handed + (IF pcb.state = "ESTABLISHED" THEN 0 ELSE 1)

(* C1's case: a queued out-of-order segment is delivered behind the segment
   that fills the gap before it *)
C1_Witness ==
    /\ out.op = "input"
    /\ out.old.ooseq # <<>>
    /\ seg.seqno = out.old.rcv_nxt
    /\ Len(out.delivered) > seg.len
    /\ Len(pcb.ooseq) < Len(out.old.ooseq)

OoseqOrdered(q) ==
    \A i \in 1..(Len(q) - 1) :
        /\ TCP_SEQ_LT(q[i].seqno, q[i + 1].seqno)
        /\ TCP_SEQ_LEQ(Add32(q[i].seqno, q[i].len), q[i + 1].seqno)

(* C6: after every call, the out-of-order queue is strictly ordered by
   sequence number and no entry reaches into the next one
   (a.seqno + a.len <= b.seqno for neighbours a, b). *)
C6_OoseqOrdered == OoseqOrdered(pcb.ooseq)

(* C6's case: an insertion behind an entry that overlapped the new segment
   and had to be trimmed *)
C6_Witness ==
    /\ out.op = "input"
    /\ Len(pcb.ooseq) >= 2
    /\ \E i \in DOMAIN out.old.ooseq :
           /\ i < Len(pcb.ooseq)
           /\ pcb.ooseq[i].seqno = out.old.ooseq[i].seqno
           /\ pcb.ooseq[i].len < out.old.ooseq[i].len
           /\ pcb.ooseq[i + 1].seqno = seg.seqno

SegTcpLen(sg) == sg.len + (IF HasSynFin(sg.flags) THEN 1 ELSE 0)

BelowRcvNxt ==
    /\ out.op = "input"
    /\ ~seg.short
    /\ "RST" \notin seg.flags
    /\ SegTcpLen(seg) > 0
    /\ TCP_SEQ_LEQ(Add32(seg.seqno, SegTcpLen(seg)), out.old.rcv_nxt)

(* C8: a data segment that ends at or before rcv_nxt makes the receiver ask
   for an immediate ACK; nothing is delivered and rcv_nxt, rcv_wnd and the
   out-of-order queue stay as they were. *)
C8_OldDataOnlyAcked ==
    BelowRcvNxt =>
        /\ "ack_now" \in Range(out.ev)
        /\ "TF_ACK_NOW" \in pcb.flags
        /\ "up:recv" \notin Range(out.ev)
        /\ out.delivered = <<>>
        /\ pcb.rcv_nxt = out.old.rcv_nxt
        /\ pcb.rcv_wnd = out.old.rcv_wnd
        /\ pcb.ooseq = out.old.ooseq

(* C8's case: payload wholly below rcv_nxt while segments wait out of order *)
C8_Witness ==
    /\ BelowRcvNxt
    /\ seg.len > 0
    /\ out.old.ooseq # <<>>
    /\ out.old.state = "ESTABLISHED"

(* the position of the first event e in the sequence s, 0 if there is none *)
RECURSIVE FirstAt(_, _, _)
FirstAt(s, e, i) ==
    IF i > Len(s) THEN 0 ELSE IF s[i] = e THEN i ELSE FirstAt(s, e, i + 1)

(* an ESTABLISHED connection has taken the FIN of the peer in this call *)
FinAccepted ==
    /\ out.op = "input"
    /\ out.old.state = "ESTABLISHED"
    /\ "TF_GOT_FIN" \in out.recv_flags

(* C11: an ESTABLISHED connection that accepts an in-sequence FIN, arriving
   directly or drained from ooseq, ends the call in CLOSE_WAIT with an
   immediate ACK asked for and rcv_nxt one past the FIN; the closed upcall is
   fired once, after the change of state, unless the application has aborted
   the connection from the recv upcall before it *)
C11_FinToCloseWait ==
    FinAccepted =>
        /\ pcb.state = "CLOSE_WAIT"
        /\ "TF_ACK_NOW" \in pcb.flags
        /\ "ack_now" \in Range(out.ev)
        /\ pcb.rcv_nxt = Add32(out.old.rcv_nxt, Len(out.delivered) + 1)
        /\ pcb.ooseq = <<>> \/ TCP_SEQ_GT(pcb.ooseq[1].seqno, pcb.rcv_nxt)
        /\ Count(out.ev, "state:CLOSE_WAIT") = 1
        /\ IF env.recv = "ERR_ABRT" /\ out.delivered # <<>>
           THEN "up:closed" \notin Range(out.ev) /\ alive = "gone"
           ELSE /\ Count(out.ev, "up:closed") = 1
                /\ FirstAt(out.ev, "state:CLOSE_WAIT", 1) < FirstAt(out.ev, "up:closed", 1)
                /\ alive = "live"

(* the FIN waited in ooseq and is drained behind the data that fills the gap *)
C11_Witness ==
    /\ FinAccepted
    /\ "FIN" \notin seg.flags
    /\ out.old.ooseq # <<>>
    /\ out.delivered # <<>>
    /\ "up:closed" \in Range(out.ev)
    /\ pcb.state = "CLOSE_WAIT"

(* the scenario of two segments of one length, the later one arriving first:
   ooseq holds one segment of payload length 1 that begins ahead segment
   lengths after rcv_nxt, and a segment of length 1 arrives that begins
   ahead - 1 segment lengths after rcv_nxt *)
SecondOfTwoArrives(ahead) ==
    /\ out.op = "input"
    /\ out.old.state = "ESTABLISHED"
    /\ Len(out.old.ooseq) = 1
    /\ out.old.ooseq[1].seqno = Add32(out.old.rcv_nxt, ahead)
    /\ out.old.ooseq[1].len = 1
    /\ "FIN" \notin out.old.ooseq[1].hflags
    /\ seg.flags = {"ACK"}
    /\ seg.len = 1
    /\ seg.seqno = Add32(out.old.rcv_nxt, ahead - 1)

(* C13 as stated, one segment length standing for 50 bytes: with rcv_nxt =
   1000, [1100,50) in ooseq and [1050,50) arriving, both segments are
   delivered in that call and rcv_nxt = 1150 *)
C13_BothDeliveredWithGap ==
    SecondOfTwoArrives(2) =>
        /\ Len(out.delivered) = 2
        /\ pcb.rcv_nxt = Add32(out.old.rcv_nxt, 3)

(* C13, amended: the two segments are delivered in one call when the second
   to arrive begins at rcv_nxt (rcv_nxt = 1050 for [1100,50) and [1050,50)):
   then both are handed over in order in one recv upcall, rcv_nxt is past
   both and ooseq is empty.  With rcv_nxt one segment length before it
   (rcv_nxt = 1000) the second is out of order as well: nothing is delivered,
   rcv_nxt stays, and both wait in ooseq when the copy succeeds *)
C13_BothDeliveredWhenGapFilled ==
    /\ SecondOfTwoArrives(1) =>
          /\ out.delivered = byte_run(out.old.rcv_nxt, 2)
          /\ Count(out.ev, "up:recv") = 1
          /\ pcb.rcv_nxt = Add32(out.old.rcv_nxt, 2)
          /\ pcb.ooseq = <<>>
    /\ SecondOfTwoArrives(2) =>
          /\ out.delivered = <<>>
          /\ "up:recv" \notin Range(out.ev)
          /\ pcb.rcv_nxt = out.old.rcv_nxt
          /\ IF env.seg_copy_ok
             THEN /\ Len(pcb.ooseq) = 2
                  /\ pcb.ooseq[1].seqno = seg.seqno
                  /\ pcb.ooseq[2] = out.old.ooseq[1]
             ELSE pcb.ooseq = out.old.ooseq

(* the second segment begins at rcv_nxt and both are delivered *)
C13_Witness ==
    /\ SecondOfTwoArrives(1)
    /\ Len(out.delivered) = 2
    /\ env.recv = "ERR_OK"

(***************************************************************************)
(* Acknowledgements: a connection with data and a FIN under way            *)
(***************************************************************************)
MaxAcks == 4
MaxAckno == 5

TxSeg(seqno, len, fl, zc, p) ==
    [seqno |-> seqno, len |-> len, tcp_flags |-> fl, zc |-> zc, p |-> p]

(* what has been sent and not acknowledged, L being lastack: two segments
   sent, the second with the FIN; one sent and a FIN-bearing one waiting in
   unsent, both zero-copy; data only; the SYN|ACK of a passive open *)
AckPcbs ==
    LET L == established_pcb.lastack
        sent == [established_pcb EXCEPT !.rtime = 0, !.ticks_since_data_sent = 0]
    IN {[sent EXCEPT !.state = "FIN_WAIT_1",
                     !.unacked = <<TxSeg(L, 2, {"ACK"}, FALSE, <<TCP_HLEN + 1, 1>>),
                                   TxSeg(Add32(L, 2), 1, {"ACK", "FIN"}, FALSE,
                                         <<TCP_HLEN + 1>>)>>,
                     !.snd_nxt = Add32(L, 4),
                     !.snd_queuelen = 3],
        [sent EXCEPT !.state = "FIN_WAIT_1",
                     !.unacked = <<TxSeg(L, 1, {"ACK"}, TRUE, <<1>>)>>,
                     !.unsent = <<TxSeg(Add32(L, 1), 2, {"ACK", "FIN"}, TRUE, <<1, 1>>)>>,
                     !.snd_nxt = Add32(L, 1),
                     !.snd_queuelen = 3],
        [sent EXCEPT !.unacked = <<TxSeg(L, 3, {"ACK"}, TRUE, <<1, 2>>)>>,
                     !.unsent = <<TxSeg(Add32(L, 3), 2, {"ACK"}, FALSE, <<TCP_HLEN + 2>>)>>,
                     !.snd_nxt = Add32(L, 3),
                     !.snd_queuelen = 3],
        syn_ack_sent([established_pcb EXCEPT !.state = "SYN_RCVD"])}

AckInit ==
    /\ \E d \in {0, U8 - 2} :
          /\ pcb \in {[pc EXCEPT !.dupacks = d] : pc \in AckPcbs}
          /\ pcb.state = "SYN_RCVD" => d = 0
          /\ hist = [NoHist EXCEPT !.run = d, !.runc = d]
    /\ lpcb = Listener
    /\ alive = "live"
    /\ seg = NoSeg
    /\ env = AllOk
    /\ out = NoOut(pcb)

AckInput ==
    \E k \in -1..MaxAckno, dw \in 0..1, len \in 0..1, fl \in {{"ACK"}, {}} :
        /\ hist.steps < MaxAcks
        /\ Input(Segment(pcb.rcv_nxt, Off32(pcb.lastack, k), fl, len, 0,
                         pcb.snd_wnd + dw, <<>>), AllOk)

AckNext == AckInput \/ Return

AckSpec == AckInit /\ [][AckNext]_vars

(***************************************************************************)
(* Claims on acknowledgement processing (AckSpec)                          *)
(***************************************************************************)
OldAck(pc, sg) == IsCountedAck(pc, sg) /\ TCP_SEQ_LEQ(sg.ackno, pc.lastack)

Min(a, b) == IF a < b THEN a ELSE b

(* C5 as stated: in a run of qualifying duplicate ACKs that follow one
   another directly among the segments of the connection, the 3rd and only
   the 3rd triggers fast retransmit, the 4th and later ones notify the
   congestion module, and an old ACK that fails a condition resets dupacks *)
C5_ThirdOfConsecutiveSegments ==
    out.op = "input" =>
        LET q == IsQualifyingDup(out.old, seg)
        IN /\ ("rexmit_fast" \in Range(out.ev)) <=> (q /\ hist.run = 3)
           /\ (q /\ hist.run > 3) =>
                  ("cc_dupack" \in Range(out.ev) /\ "rexmit_fast" \notin Range(out.ev))
           /\ (OldAck(out.old, seg) /\ ~q) => pcb.dupacks = 0

(* C5, amended: a run of qualifying duplicate ACKs is ended by an ACK at or
   below snd_nxt that does not qualify, and by nothing else (a segment without
   ACK, or with an ackno beyond snd_nxt, leaves the count alone).  In such a
   run fast retransmit is triggered once, by the 3rd; the 4th and every later
   one, past 255 too, notifies the congestion module and nothing else; an old
   ACK that fails a condition resets dupacks to 0; dupacks is the length of
   the run, saturated at 255 *)
C5_FastRetransmitOnThird ==
    out.op = "input" =>
        LET q == IsQualifyingDup(out.old, seg)
        IN /\ ("rexmit_fast" \in Range(out.ev)) <=> (q /\ hist.runc = 3)
           /\ Count(out.ev, "rexmit_fast") <= 1
           /\ ("cc_dupack" \in Range(out.ev)) <=> (q /\ hist.runc > 3)
           /\ (OldAck(out.old, seg) /\ ~q) => pcb.dupacks = 0
           /\ pcb.dupacks = Min(hist.runc, U8 - 1)

(* the 4th duplicate of a run that started at 0 *)
C5_Witness ==
    /\ out.op = "input"
    /\ IsQualifyingDup(out.old, seg)
    /\ hist.runc = 4
    /\ pcb.dupacks = 4
    /\ "cc_dupack" \in Range(out.ev)

(* every FIN-bearing segment of queue new is a segment of queue old *)
FinKept(old, new) ==
    \A i \in DOMAIN new :
        "FIN" \in new[i].tcp_flags => \E j \in DOMAIN old : old[j] = new[i]

(* C7: a FIN-bearing segment of unacked or unsent is, after a call, either
   gone or what it was: same seqno, length, flags and buffers *)
C7_FinNeverTrimmed ==
    out.op = "input" =>
        /\ FinKept(out.old.unacked, pcb.unacked)
        /\ FinKept(out.old.unsent, pcb.unsent)

(* an ACK accepted as new whose ackno lies strictly inside the FIN-bearing
   head of unacked *)
C7_Witness ==
    /\ out.op = "input"
    /\ "ACK" \in seg.flags
    /\ pcb.lastack = seg.ackno
    /\ out.old.lastack # seg.ackno
    /\ pcb.unacked # <<>>
    /\ "FIN" \in pcb.unacked[1].tcp_flags
    /\ TCP_SEQ_GT(seg.ackno, pcb.unacked[1].seqno)
    /\ TCP_SEQ_LT(seg.ackno, Add32(pcb.unacked[1].seqno, TCP_SEGLEN(pcb.unacked[1])))

(***************************************************************************)
(* Connections: passive and active open, close, TIME_WAIT and reuse        *)
(***************************************************************************)
MaxConnSteps == 6

(* NOP, NOP, timestamp option with TSval v and TSecr 0 *)
TsOpt(v) == <<1, 1, 8, 10, 0, 0, 0, v, 0, 0, 0, 0>>

SynOpts == {<<>>, TsOpt(1), TsOpt(2)}

(* flags, options, payload length and distance of seqno from rcv_nxt of the
   segments that arrive *)
ConnShapes ==
    {<<{"SYN"}, o, 0, d>> : o \in SynOpts, d \in {-2, 0}}
    \cup {<<{"SYN", "ACK"}, <<>>, 0, d>> : d \in {-2, 0}}
    \cup {<<{"ACK"}, <<>>, len, d>> : len \in 0..1, d \in {-2, 0}}
    \cup {<<{"ACK", "FIN"}, <<>>, 0, 0>>}
    \cup {<<fl, <<>>, 0, d>> : fl \in {{"RST"}, {"RST", "ACK"}}, d \in {-2, 0, TCP_WND + 1}}

ListenShapes ==
    {<<sh[1], sh[2], sh[3]>> : sh \in ConnShapes}
    \cup {<<fl, <<>>, 0>> : fl \in {{"FIN"}, {"SYN", "FIN"}, {"SYN", "RST"}}}

(* what the application and the collaborators may answer in state st *)
ConnEnv(st) ==
    {AllOk}
    \cup (CASE st = "SYN_SENT" -> {[AllOk EXCEPT !.connected = "ERR_ABRT"]}
            [] st = "SYN_RCVD" -> {[AllOk EXCEPT !.accept = "ERR_ABRT"],
                                   [AllOk EXCEPT !.accept = "ERR_MEM"]}
            [] st = "TIME_WAIT" -> {[AllOk EXCEPT !.reuse_ok = FALSE],
                                    [AllOk EXCEPT !.enqueue_ok = FALSE]}
            [] OTHER -> {[AllOk EXCEPT !.sent = "ERR_ABRT"],
                         [AllOk EXCEPT !.recv = "ERR_ABRT"],
                         [AllOk EXCEPT !.closed = "ERR_ABRT"]})

ListenEnv ==
    {AllOk, [AllOk EXCEPT !.clone_ok = FALSE], [AllOk EXCEPT !.syn_received_ok = FALSE],
     [AllOk EXCEPT !.enqueue_ok = FALSE]}

(* tcp_connect: the SYN is sent and waits in unacked *)
syn_sent_pcb ==
    [fresh_pcb(Config) EXCEPT
        !.state = "SYN_SENT",
        !.unacked = <<TxSeg(ISS, 0, {"SYN"}, FALSE, <<TCP_HLEN>>)>>,
        !.snd_nxt = Add32(ISS, 1),
        !.snd_queuelen = 1,
        !.rtime = 0]

ConnInit ==
    /\ \/ pcb = fresh_pcb(Config) /\ alive = "none"
       \/ pcb = syn_sent_pcb /\ alive = "live"
    /\ lpcb = Listener
    /\ seg = NoSeg
    /\ env = AllOk
    /\ out = NoOut(pcb)
    /\ hist = NoHist

(* the call of L3_level_tcp_input for the listener has run and left r *)
Listened(sg, e, r) ==
    /\ lpcb' = r.lpcb
    /\ pcb' = IF r.npcb # NULL THEN r.npcb ELSE pcb
    /\ alive' = IF r.npcb # NULL THEN "live" ELSE alive
    /\ seg' = sg
    /\ env' = e
    /\ out' = [op |-> "listen", ev |-> r.ev, delivered |-> <<>>, sent |-> 0,
               recv_flags |-> {}, old |-> pcb]
    /\ hist' = IF r.npcb # NULL
               THEN [hist EXCEPT !.steps = @ + 1, !.incarnation = @ + 1, !.accepts = 0,
                                 !.handed = 0, !.run = 0, !.runc = 0, !.fins = 0,
                                 !.eofs = 0]
               ELSE [hist EXCEPT !.steps = @ + 1]

(* a segment for which no connection is found goes to the listener *)
ListenInput ==
    \E sh \in ListenShapes, e \in ListenEnv :
        /\ alive # "live"
        /\ out.op = "none"
        /\ hist.steps < MaxConnSteps
        /\ Listened(Segment(IRS, ISS, sh[1], sh[3], 0, TCP_WND, sh[2]), e,
                    L3_level_tcp_input_listen(lpcb, Segment(IRS, ISS, sh[1], sh[3], 0,
                                                            TCP_WND, sh[2]), e))

ConnInput ==
    \E sh \in ConnShapes, ackno \in {pcb.lastack, pcb.snd_nxt}, e \in ConnEnv(pcb.state) :
        /\ hist.steps < MaxConnSteps
        /\ Input(Segment(Off32(pcb.rcv_nxt, sh[4]), ackno, sh[1], sh[3], 0, pcb.snd_wnd,
                         sh[2]), e)

(* tcp_close (rx true) or tcp_shutdown of the sending side only: the FIN is
   sent and waits in unacked *)
AppClose ==
    \E rx \in BOOLEAN :
        /\ alive = "live"
        /\ out.op = "none"
        /\ hist.steps < MaxConnSteps
        /\ pcb.state \in {"ESTABLISHED", "CLOSE_WAIT"}
        /\ pcb' = [pcb EXCEPT
                     !.state = IF pcb.state = "ESTABLISHED" THEN "FIN_WAIT_1" ELSE "LAST_ACK",
                     !.flags = IF rx THEN @ \cup {"TF_RXCLOSED"} ELSE @,
                     !.unacked = Append(@, TxSeg(pcb.snd_nxt, 0, {"FIN", "ACK"}, FALSE,
                                                 <<TCP_HLEN>>)),
                     !.snd_nxt = Add32(@, 1),
                     !.snd_queuelen = @ + 1,
                     !.rtime = IF @ = -1 THEN 0 ELSE @]
        /\ out' = NoOut(pcb')
        /\ hist' = [hist EXCEPT !.steps = @ + 1]
        /\ UNCHANGED <<lpcb, alive, seg, env>>

(* segments for a connection in TIME_WAIT that carry a FIN or payload with
   their RST or SYN: <<flags, len>> *)
TwShapes ==
    {<<{"SYN", "FIN"}, 0>>, <<{"RST", "FIN"}, 0>>, <<{"RST", "SYN"}, 0>>, <<{"RST"}, 1>>,
     <<{"SYN"}, 1>>}

TimeWaitInput ==
    \E sh \in TwShapes, d \in {-2, 0} :
        /\ hist.steps < MaxConnSteps
        /\ pcb.state = "TIME_WAIT"
        /\ Input(Segment(Off32(pcb.rcv_nxt, d), pcb.snd_nxt, sh[1], sh[2], 0, pcb.snd_wnd,
                         <<>>), AllOk)

(* the states a connection is in once the FIN of the peer has been accepted *)
PeerFinStates == {"CLOSE_WAIT", "CLOSING", "LAST_ACK", "TIME_WAIT"}

(* the peer sends its FIN again, alone or with the byte before it *)
FinAgainInput ==
    \E len \in 0..1 :
        /\ hist.steps < MaxConnSteps
        /\ pcb.state \in PeerFinStates
        /\ Input(Segment(Off32(pcb.rcv_nxt, 0 - 1 - len), pcb.snd_nxt, {"ACK", "FIN"}, len,
                         0, pcb.snd_wnd, <<>>), AllOk)

ConnNext ==
    ListenInput \/ ConnInput \/ TimeWaitInput \/ FinAgainInput \/ AppClose \/ Return

ConnSpec == ConnInit /\ [][ConnNext]_vars

(***************************************************************************)
(* Claims on connections (ConnSpec)                                        *)
(***************************************************************************)
(* the SYN of a TIME_WAIT reuse carries a timestamp strictly newer than the
   one recorded for the connection *)
NewerTimestamp(pc, sg) ==
    LET ts == tcp_parseopt_ts(new_in_data(sg), 0)
    IN ts.found /\ "TF_TIMESTAMP" \in pc.flags /\ pc.ts_recent < ts.tsval

(* C2 as stated: rcv_nxt never decreases in sequence-number order over a call
   of L3_level_tcp_input, in any state, SYN_SENT completion and TIME_WAIT
   reuse included *)
C2_RcvNxtNeverDecreases ==
    out.op = "input" => TCP_SEQ_GEQ(pcb.rcv_nxt, out.old.rcv_nxt)

(* C2, amended: over a call of L3_level_tcp_input rcv_nxt does not decrease,
   except where a connection begins: at SYN_SENT completion, which sets
   rcv_nxt for the first time, and at a TIME_WAIT reuse that is accepted on a
   strictly newer timestamp, where the sequence number of the SYN is not
   compared with rcv_nxt.  A TIME_WAIT reuse without a newer timestamp does
   not decrease it. *)
C2_RcvNxtMonotonePerConnection ==
    out.op = "input" =>
        \/ TCP_SEQ_GEQ(pcb.rcv_nxt, out.old.rcv_nxt)
        \/ out.old.state = "SYN_SENT" /\ "up:connected" \in Range(out.ev)
        \/ /\ out.old.state = "TIME_WAIT"
           /\ "up:syn_tw_handled" \in Range(out.ev)
           /\ NewerTimestamp(out.old, seg)

(* a TIME_WAIT reuse on a newer timestamp that takes rcv_nxt back *)
C2_Witness ==
    /\ out.op = "input"
    /\ out.old.state = "TIME_WAIT"
    /\ pcb.state = "SYN_RCVD"
    /\ NewerTimestamp(out.old, seg)
    /\ pcb.rcv_nxt = Add32(seg.seqno, 1)
    /\ TCP_SEQ_LT(pcb.rcv_nxt, out.old.rcv_nxt)

(* C3 as stated: once the connection is aborted or removed in a call, no
   field of the PCB is read or written in that call and no upcall or transmit
   is issued: only the buffers of the segment are released *)
C3_NothingAfterAbort ==
    out.op = "input" =>
        \A i \in DOMAIN out.ev, j \in DOMAIN out.ev :
            (out.ev[i] = "gone" /\ j > i) =>
                out.ev[j] \in {"pbuf_free:inseg.p", "pbuf_free:p"}

(* the RST of segment sg is not acceptable to the PCB pc *)
UnacceptableRst(pc, sg) ==
    /\ ~sg.short
    /\ "RST" \in sg.flags
    /\ PCB_IN_ACTIVE_STATE(pc)
    /\ IF pc.state = "SYN_SENT" THEN sg.ackno # pc.snd_nxt
       ELSE ~TCP_SEQ_BETWEEN(sg.seqno, pc.rcv_nxt, Add32(pc.rcv_nxt, pc.rcv_wnd))

(* C4: a RST that is not acceptable leaves every field of the PCB as it was,
   fires no error upcall and does not remove the PCB; the connection ends in
   that call only if the application aborts it from the sent upcall *)
C4_UnacceptableRstIgnored ==
    (out.op = "input" /\ UnacceptableRst(out.old, seg)) =>
        /\ pcb = out.old
        /\ out.recv_flags = {}
        /\ Range(out.ev) \cap {"up:err", "tcp_pcb_remove", "tcp_abort", "tcp_pcb_purge",
                               "up:recv", "up:closed", "up:accept", "up:connected"} = {}
        /\ alive = "gone" => (env.sent = "ERR_ABRT" /\ out.old.acked > 0)

(* an unacceptable RST for a connection with a FIN under way and a segment
   waiting in unacked *)
C4_Witness ==
    /\ out.op = "input"
    /\ UnacceptableRst(out.old, seg)
    /\ out.old.state = "FIN_WAIT_1"
    /\ out.old.unacked # <<>>
    /\ alive = "live"

(* the ACK of segment sg acknowledges the SYN|ACK of the PCB pc in SYN_RCVD *)
AcksSynAck(pc, sg) ==
    /\ ~sg.short
    /\ pc.state = "SYN_RCVD"
    /\ "ACK" \in sg.flags /\ "RST" \notin sg.flags
    /\ TCP_SEQ_BETWEEN(sg.ackno, Add32(pc.lastack, 1), pc.snd_nxt)

(* C9: an ACK with ackno in (lastack, snd_nxt] for a PCB in SYN_RCVD sets the
   state to ESTABLISHED and fires the accept upcall, once; nothing else fires
   it, so that an incarnation of the connection sees it at most once *)
C9_AcceptExactlyOnce ==
    /\ hist.accepts <= 1
    /\ out.op = "input" =>
          /\ AcksSynAck(out.old, seg) =>
                /\ Count(out.ev, "state:ESTABLISHED") = 1
                /\ Count(out.ev, "up:accept") = 1
                /\ hist.accepts = 1
                /\ (env.accept = "ERR_OK") =>
                       (alive = "live" /\ pcb.state \in {"ESTABLISHED", "CLOSE_WAIT"})
          /\ ("up:accept" \in Range(out.ev)) => AcksSynAck(out.old, seg)
    /\ out.op = "listen" => "up:accept" \notin Range(out.ev)

(* the second incarnation of the connection is accepted *)
C9_Witness ==
    /\ out.op = "input"
    /\ AcksSynAck(out.old, seg)
    /\ hist.incarnation = 2
    /\ hist.accepts = 1
    /\ pcb.state = "ESTABLISHED"

(* the SYN|ACK that answers a SYN waits in queue q *)
SynAckQueued(q) == \E i \in DOMAIN q : q[i].tcp_flags = {"SYN", "ACK"}

(* a SYN without RST, FIN or ACK for the listener, cloning, registration and
   enqueue all succeeding *)
ListenSyn ==
    /\ out.op = "listen"
    /\ ~seg.short
    /\ seg.flags \cap {"SYN", "RST", "FIN", "ACK"} = {"SYN"}
    /\ env.clone_ok /\ env.syn_received_ok /\ env.enqueue_ok

(* C10: such a SYN yields a new PCB in SYN_RCVD with rcv_nxt = seqno + 1, a
   SYN|ACK queued and the transmission triggered; the listener is as it was *)
C10_ListenSynCreatesSynRcvd ==
    ListenSyn =>
        /\ alive = "live"
        /\ pcb.state = "SYN_RCVD"
        /\ pcb.rcv_nxt = Add32(seg.seqno, 1)
        /\ SynAckQueued(pcb.unacked \o pcb.unsent)
        /\ Count(out.ev, "clone_pcb") = 1
        /\ Count(out.ev, "enqueue_synack") = 1
        /\ Count(out.ev, "tcp_output") = 1
        /\ "gone" \notin Range(out.ev)
        /\ lpcb = Listener
        /\ lpcb.state = "LISTEN"

(* a SYN with a timestamp option has made a connection *)
C10_Witness ==
    /\ ListenSyn
    /\ seg.opts # <<>>
    /\ "TF_TIMESTAMP" \in pcb.flags
    /\ pcb.state = "SYN_RCVD"
    /\ hist.incarnation = 1

(* timestamps are in use on the SYN sg and on the old incarnation pc *)
BothTimestamps(pc, sg) ==
    tcp_parseopt_ts(new_in_data(sg), 0).found /\ "TF_TIMESTAMP" \in pc.flags

SynTimestamp(sg) == tcp_parseopt_ts(new_in_data(sg), 0).tsval

(* the conditions of an RFC 6191 reuse, for the PCB pc in TIME_WAIT *)
ReuseConditions(pc, sg) ==
    /\ ~sg.short
    /\ sg.flags \cap {"SYN", "ACK", "RST"} = {"SYN"}
    /\ pc.reuse_cb
    /\ \/ BothTimestamps(pc, sg) /\ SynTimestamp(sg) > pc.ts_recent
       \/ /\ ~BothTimestamps(pc, sg) \/ SynTimestamp(sg) = pc.ts_recent
          /\ TCP_SEQ_GEQ(sg.seqno, pc.rcv_nxt)

(* C12: a PCB in TIME_WAIT is recycled to SYN_RCVD, with rcv_nxt = seqno + 1,
   if and only if the segment is a SYN without ACK and RST, a reuse callback
   is registered and the timestamp or the sequence number is new enough;
   otherwise it stays in TIME_WAIT with rcv_nxt as it was; a SYN with a
   timestamp older than ts_recent is never reused *)
C12_TimeWaitReuseIff ==
    (out.op = "input" /\ out.old.state = "TIME_WAIT") =>
        /\ ("up:syn_tw_handled" \in Range(out.ev)) <=> ReuseConditions(out.old, seg)
        /\ IF ReuseConditions(out.old, seg)
           THEN pcb.state = "SYN_RCVD" /\ pcb.rcv_nxt = Add32(seg.seqno, 1)
           ELSE pcb.state = "TIME_WAIT" /\ pcb.rcv_nxt = out.old.rcv_nxt
        /\ (BothTimestamps(out.old, seg) /\ SynTimestamp(seg) < out.old.ts_recent) =>
               pcb.state = "TIME_WAIT"

(* a SYN with the recorded timestamp and a sequence number at rcv_nxt is
   taken for reuse *)
C12_Witness ==
    /\ out.op = "input"
    /\ out.old.state = "TIME_WAIT"
    /\ BothTimestamps(out.old, seg)
    /\ SynTimestamp(seg) = out.old.ts_recent
    /\ seg.seqno = out.old.rcv_nxt
    /\ pcb.state = "SYN_RCVD"
    /\ pcb.rcv_nxt = Add32(seg.seqno, 1)

(* a segment for a synchronized connection whose first sequence number is
   outside the receive window [rcv_nxt, rcv_nxt + rcv_wnd) *)
StartsOutsideWindow(pc, sg) ==
    /\ ~sg.short
    /\ pc.state \in {"ESTABLISHED", "FIN_WAIT_1", "FIN_WAIT_2", "CLOSE_WAIT", "CLOSING",
                     "LAST_ACK"}
    /\ sg.flags \cap {"RST", "SYN"} = {}
    /\ ~TCP_SEQ_BETWEEN(sg.seqno, pc.rcv_nxt, Sub32(Add32(pc.rcv_nxt, pc.rcv_wnd), 1))

(* the state, the receive-side and send-side variables and the queues *)
ConnectionView(pc) ==
    <<pc.state, pc.rcv_nxt, pc.rcv_wnd, pc.ooseq, pc.snd_nxt, pc.lastack, pc.snd_wnd,
      pc.snd_wl1, pc.snd_wl2, pc.unacked, pc.unsent, pc.snd_queuelen, pc.dupacks>>

(* C14 as stated: a segment that starts outside the receive window, with
   payload or without, makes an ACK be sent and leaves the connection as it
   was: nothing is delivered, and the state, the receive-side and send-side
   variables and the queues are unchanged *)
C14_OutOfWindowUnaffected ==
    (out.op = "input" /\ StartsOutsideWindow(out.old, seg)) =>
        /\ Range(out.ev) \cap {"ack_now", "empty_ack"} # {}
        /\ out.delivered = <<>>
        /\ Range(out.ev) \cap {"up:recv", "up:sent", "up:closed"} = {}
        /\ ConnectionView(pcb) = ConnectionView(out.old)

(* the RST of segment sg is acceptable to the PCB pc *)
AcceptableRst(pc, sg) ==
    /\ ~sg.short
    /\ "RST" \in sg.flags
    /\ PCB_IN_ACTIVE_STATE(pc)
    /\ IF pc.state = "SYN_SENT" THEN sg.ackno = pc.snd_nxt
       ELSE TCP_SEQ_BETWEEN(sg.seqno, pc.rcv_nxt, Add32(pc.rcv_nxt, pc.rcv_wnd))

(* C15: in every state that tcp_process serves, an acceptable RST makes the
   call fire the error upcall exactly once and then remove the PCB; nothing
   of the per-state processing runs (no field but TF_ACK_DELAY changes, no
   state change), no sent, recv, closed, accept or connected upcall fires and
   nothing is transmitted *)
C15_AcceptableRstRemoves ==
    (out.op = "input" /\ AcceptableRst(out.old, seg)) =>
        /\ Count(out.ev, "up:err") = 1
        /\ Count(out.ev, "tcp_pcb_remove") = 1
        /\ FirstAt(out.ev, "up:err", 1) < FirstAt(out.ev, "tcp_pcb_remove", 1)
        /\ Range(out.ev) \subseteq {"up:err", "tcp_pcb_remove", "gone", "write:is_in_input",
                                    "pbuf_free:inseg.p"}
        /\ pcb = [out.old EXCEPT !.flags = @ \ {"TF_ACK_DELAY"}]
        /\ out.delivered = <<>>
        /\ alive = "gone"

(* an acceptable RST|ACK for a connection that has closed its side and
   whose FIN still waits in unacked *)
C15_Witness ==
    /\ out.op = "input"
    /\ AcceptableRst(out.old, seg)
    /\ "ACK" \in seg.flags
    /\ out.old.state \in {"FIN_WAIT_1", "LAST_ACK"}
    /\ out.old.unacked # <<>>
    /\ alive = "gone"

(***************************************************************************)
(* Out-of-order arrivals into a wider receive window, with and without     *)
(* memory for the copy                                                     *)
(***************************************************************************)
OosWnd == 5

OosInit ==
    /\ pcb = [established_pcb EXCEPT !.rcv_wnd = OosWnd, !.rcv_wnd_max = OosWnd]
    /\ lpcb = Listener
    /\ alive = "live"
    /\ seg = NoSeg
    /\ env = AllOk
    /\ out = NoOut(pcb)
    /\ hist = NoHist

OosInput ==
    \E d \in 0..(OosWnd - 1), len \in 1..MaxLen, fl \in DataFlags,
       e \in {AllOk, [AllOk EXCEPT !.seg_copy_ok = FALSE]} :
        /\ hist.steps < MaxSteps
        /\ Input(Segment(Off32(pcb.rcv_nxt, d), pcb.snd_nxt, fl, len, 0, pcb.snd_wnd, <<>>),
                 e)

OosNext == OosInput \/ Return

OosSpec == OosInit /\ [][OosNext]_vars

(* the segment sg is taken to the out-of-sequence branch by the PCB pc *)
OutOfOrder(pc, sg) ==
    /\ ~sg.short
    /\ pc.state = "ESTABLISHED"
    /\ sg.len > 0
    /\ TCP_SEQ_GT(sg.seqno, pc.rcv_nxt)
    /\ in_rcv_window(pc, sg.seqno)

(* the place in the queue q that the for loop finds for a segment at
   seqno: "empty", "same", "first", "between" or "tail" *)
InsertionPath(q, seqno) ==
    IF q = <<>> THEN "empty"
    ELSE IF \E i \in DOMAIN q : q[i].seqno = seqno /\
                                \A j \in 1..(i - 1) : TCP_SEQ_GT(seqno, q[j].seqno)
    THEN "same"
    ELSE IF TCP_SEQ_LT(seqno, q[1].seqno) THEN "first"
    ELSE IF TCP_SEQ_GT(seqno, q[Len(q)].seqno) THEN "tail"
    ELSE "between"

(* C16: when tcp_seg_copy finds no memory for an out-of-order segment, the
   segment is dropped: ooseq is exactly as before wherever the segment would
   have gone, rcv_nxt and rcv_wnd are unchanged, nothing is delivered, and
   the ACK of the branch is still sent *)
C16_CopyFailureLeavesOoseq ==
    (out.op = "input" /\ ~env.seg_copy_ok /\ OutOfOrder(out.old, seg)) =>
        /\ pcb.ooseq = out.old.ooseq
        /\ pcb.rcv_nxt = out.old.rcv_nxt
        /\ pcb.rcv_wnd = out.old.rcv_wnd
        /\ out.delivered = <<>>
        /\ "empty_ack" \in Range(out.ev)

(* the copy fails for a segment that belongs between two queued segments
   and overlaps the one before it *)
C16_Witness ==
    /\ out.op = "input"
    /\ ~env.seg_copy_ok
    /\ OutOfOrder(out.old, seg)
    /\ Len(out.old.ooseq) = 2
    /\ InsertionPath(out.old.ooseq, seg.seqno) = "between"
    /\ TCP_SEQ_GT(Add32(out.old.ooseq[1].seqno, out.old.ooseq[1].len), seg.seqno)
    /\ pcb.ooseq = out.old.ooseq

(***************************************************************************)
(* Options: segments whose options area holds well-formed options, then    *)
(* possibly a malformed one, then possibly more options                    *)
(***************************************************************************)
MaxOptSteps == 2

MssOpt(v) == <<2, 4, 0, v>>
WsOpt(v) == <<3, 3, v>>
UnknownOpt == <<9, 2>>

(* well-formed options *)
OptPre == {<<>>, <<1>>, MssOpt(4), WsOpt(2), TsOpt(5), UnknownOpt, MssOpt(4) \o WsOpt(2)}

OptPost == {<<>>, MssOpt(6), WsOpt(3), TsOpt(7)}

(* malformed options and what may follow each in the options area: a
   recognised kind with a wrong length byte, an unknown kind with length 0,
   and options that run past the end of the area *)
OptMalformed ==
    {[bad |-> b, posts |-> OptPost] : b \in {<<2, 3, 0, 4>>, <<3, 4, 1>>, <<8, 8>>, <<9, 0>>}}
    \cup {[bad |-> b, posts |-> {<<>>}] :
              b \in {<<2, 4, 0>>, <<3, 3>>, <<8, 10, 0, 0, 0, 7>>, <<2>>, <<3>>}}

OptAreas ==
    {pre \o post : pre \in OptPre, post \in OptPost}
    \cup UNION {{pre \o m.bad \o post : pre \in OptPre, post \in m.posts} : m \in OptMalformed}

WithOpts(sg, opts, beyond) == [sg EXCEPT !.opts = opts, !.beyond = beyond]

OptListen ==
    \E opts \in OptAreas, b \in {0, 4} :
        /\ alive # "live"
        /\ out.op = "none"
        /\ hist.steps < MaxOptSteps
        /\ Listened(WithOpts(Segment(IRS, ISS, {"SYN"}, 0, 0, TCP_WND, <<>>), opts, b), AllOk,
                    L3_level_tcp_input_listen(
                        lpcb, WithOpts(Segment(IRS, ISS, {"SYN"}, 0, 0, TCP_WND, <<>>), opts, b),
                        AllOk))

OptInput ==
    \E opts \in OptAreas, b \in {0, 4}, len \in 0..1 :
        /\ hist.steps < MaxOptSteps
        /\ pcb.state = "SYN_SENT" => len = 0
        /\ Input(WithOpts(Segment(IF pcb.state = "SYN_SENT" THEN IRS ELSE pcb.rcv_nxt,
                                  pcb.snd_nxt,
                                  IF pcb.state = "SYN_SENT" THEN {"SYN", "ACK"} ELSE {"ACK"},
                                  len, 0, pcb.snd_wnd, <<>>), opts, b),
                 AllOk)

OptNext == OptListen \/ OptInput \/ Return

OptSpec == ConnInit /\ [][OptNext]_vars

(* C17: when the options area holds well-formed options pre, then a
   malformed option, then anything, the call does exactly what it does for
   the same segment with the options pre alone: the options before the
   malformed one have their effect, the ones after it have none, and the
   segment goes through the state machine all the same *)
C17_MalformedOptionStopsParsing ==
    \A pre \in OptPre, m \in OptMalformed :
        \A post \in m.posts :
            seg.opts = pre \o m.bad \o post =>
                /\ out.op = "input" =>
                       LET r == L3_level_tcp_input(out.old, WithOpts(seg, pre, seg.beyond),
                                                   env)
                       IN /\ pcb = r.pcb
                          /\ out.ev = r.ev
                          /\ out.delivered = r.in.delivered
                /\ out.op = "listen" =>
                       LET r == L3_level_tcp_input_listen(lpcb,
                                                          WithOpts(seg, pre, seg.beyond), env)
                       IN /\ r.npcb # NULL
                          /\ pcb = r.npcb
                          /\ out.ev = r.ev

(* a SYN for the listener with an MSS option, an unknown option of length 0
   and a window-scale option: the connection is created with the MSS of the
   option and without window scaling *)
C17_Witness ==
    /\ out.op = "listen"
    /\ seg.opts = MssOpt(4) \o <<9, 0>> \o WsOpt(3)
    /\ pcb.state = "SYN_RCVD"
    /\ pcb.mss = 4
    /\ "TF_WND_SCALE" \notin pcb.flags

(* the segment sg carries an ACK for data the PCB pc has not sent *)
AckBeyondSndNxt(pc, sg) ==
    /\ ~sg.short
    /\ pc.state = "ESTABLISHED"
    /\ sg.flags = {"ACK"}
    /\ TCP_SEQ_GT(sg.ackno, pc.snd_nxt)

(* C18 as stated: an ACK whose ackno is beyond snd_nxt makes an empty ACK be
   sent and nothing else: lastack, dupacks, the unacked and unsent queues,
   snd_queuelen, the RTT estimator and the retransmit timer are unchanged *)
C18_AckBeyondSndNxtChangesNothing ==
    (out.op = "input" /\ AckBeyondSndNxt(out.old, seg)) =>
        /\ "empty_ack" \in Range(out.ev)
        /\ pcb.lastack = out.old.lastack
        /\ pcb.dupacks = out.old.dupacks
        /\ pcb.unacked = out.old.unacked
        /\ pcb.unsent = out.old.unsent
        /\ pcb.snd_queuelen = out.old.snd_queuelen
        /\ <<pcb.sa, pcb.sv, pcb.rto, pcb.rttest>>
               = <<out.old.sa, out.old.sv, out.old.rto, out.old.rttest>>
        /\ pcb.rtime = out.old.rtime

(* C19 as stated: the sent upcall fires at most once in a call, never in a
   call whose segment does not acknowledge new data, and its count is never
   more than the advance of lastack in that call, so that no acknowledged
   byte is reported twice *)
C19_SentOnlyForNewlyAcked ==
    out.op = "input" =>
        /\ Count(out.ev, "up:sent") <= 1
        /\ "up:sent" \in Range(out.ev) =>
               /\ TCP_SEQ_GT(pcb.lastack, out.old.lastack)
               /\ out.sent <= Sub32(pcb.lastack, out.old.lastack)

(* the segment sg acknowledges something new that the PCB pc has sent *)
AcksNew(pc, sg) ==
    /\ ~sg.short
    /\ pc.state \in {"SYN_RCVD", "ESTABLISHED", "FIN_WAIT_1", "FIN_WAIT_2", "CLOSE_WAIT",
                     "CLOSING", "LAST_ACK"}
    /\ "ACK" \in sg.flags
    /\ sg.flags \cap {"RST", "SYN"} = {}
    /\ TCP_SEQ_BETWEEN(sg.ackno, Add32(pc.lastack, 1), pc.snd_nxt)

(* the SYNs and FINs of the segments of queue q that ackno covers *)
PseudoBytesAcked(q, ackno) ==
    Cardinality({i \in DOMAIN q :
                    /\ HasSynFin(q[i].tcp_flags)
                    /\ TCP_SEQ_LEQ(Add32(q[i].seqno, q[i].len + 1), ackno)})

(* the payload bytes that the segment sg newly acknowledges to the PCB pc *)
PayloadAcked(pc, sg) ==
    Sub32(sg.ackno, pc.lastack) - PseudoBytesAcked(pc.unacked \o pc.unsent, sg.ackno)

(* C20: the count handed to the sent upcall by a call whose segment
   acknowledges something new is the number of payload bytes acknowledged,
   the SYN of a SYN|ACK and the FIN of a FIN-bearing segment left out; when
   only a SYN or a FIN is acknowledged no sent upcall fires *)
C20_PseudoBytesNotReported ==
    (out.op = "input" /\ AcksNew(out.old, seg)) =>
        /\ out.sent = PayloadAcked(out.old, seg)
        /\ "up:sent" \in Range(out.ev) <=> PayloadAcked(out.old, seg) > 0
        /\ Count(out.ev, "up:sent") <= 1

(* an ACK that covers the payload of a segment and the FIN that the same
   segment carries *)
C20_Witness ==
    /\ out.op = "input"
    /\ AcksNew(out.old, seg)
    /\ out.old.unacked # <<>>
    /\ "FIN" \in out.old.unacked[1].tcp_flags
    /\ out.old.unacked[1].len > 0
    /\ pcb.unacked = <<>>
    /\ out.sent = out.old.unacked[1].len
    /\ PseudoBytesAcked(out.old.unacked, seg.ackno) = 1

(***************************************************************************)
(* Closing: connections that have sent or queued their FIN behind a byte   *)
(* of data, and the segments that acknowledge some or all of it            *)
(***************************************************************************)
MaxCloseSteps == 3

(* the FIN is in unacked behind the data, or still waits in unsent; the
   application closed both directions (TF_RXCLOSED) or the sending one only *)
ClosePcbs ==
    LET L == established_pcb.lastack
    IN UNION {LET sent == [established_pcb EXCEPT !.rtime = 0, !.ticks_since_data_sent = 0,
                                                  !.snd_queuelen = 2, !.flags = fs]
              IN {[sent EXCEPT !.state = st,
                            !.unacked = <<TxSeg(L, 1, {"ACK"}, FALSE, <<TCP_HLEN + 1>>),
                                          TxSeg(Add32(L, 1), 1, {"ACK", "FIN"}, FALSE,
                                                <<TCP_HLEN + 1>>)>>,
                            !.snd_nxt = Add32(L, 3)],
               [sent EXCEPT !.state = st,
                            !.unacked = <<TxSeg(L, 1, {"ACK"}, FALSE, <<TCP_HLEN + 1>>)>>,
                            !.unsent = <<TxSeg(Add32(L, 1), 1, {"ACK", "FIN"}, FALSE,
                                               <<TCP_HLEN + 1>>)>>,
                            !.snd_nxt = Add32(L, 1)]} :
              st \in {"FIN_WAIT_1", "CLOSING", "LAST_ACK"}, fs \in {{}, {"TF_RXCLOSED"}}}

CloseInit ==
    /\ pcb \in ClosePcbs
    /\ lpcb = Listener
    /\ alive = "live"
    /\ seg = NoSeg
    /\ env = AllOk
    /\ out = NoOut(pcb)
    /\ hist = NoHist

CloseInput ==
    \E k \in 0..3, len \in 0..1, fl \in {{"ACK"}, {"ACK", "FIN"}, {"FIN"}, {}},
       e \in {AllOk, [AllOk EXCEPT !.sent = "ERR_ABRT"], [AllOk EXCEPT !.recv = "ERR_ABRT"],
              [AllOk EXCEPT !.closed = "ERR_ABRT"]} :
        /\ hist.steps < MaxCloseSteps
        /\ Input(Segment(pcb.rcv_nxt, Off32(pcb.lastack, k), fl, len, 0, pcb.snd_wnd, <<>>), e)

CloseNext == CloseInput \/ Return

CloseSpec == CloseInit /\ [][CloseNext]_vars

(* the segment sg carries "the ACK for our FIN" as tcp_process tests it *)
AcksOurFin(pc, sg) == "ACK" \in sg.flags /\ sg.ackno = pc.snd_nxt

(* a segment without RST and SYN for a PCB in state st *)
PlainSegmentIn(st) ==
    /\ out.op = "input"
    /\ ~seg.short
    /\ seg.flags \cap {"RST", "SYN"} = {}
    /\ out.old.state = st

(* C21: in FIN_WAIT_1, once tcp_receive has run: a FIN accepted together with
   the ACK of our FIN gives TIME_WAIT, an ACK scheduled and the retransmit
   state purged; a FIN accepted without it gives CLOSING and an ACK
   scheduled; the ACK of our FIN without a FIN gives FIN_WAIT_2; anything
   else leaves FIN_WAIT_1 *)
C21_FinWait1Transitions ==
    PlainSegmentIn("FIN_WAIT_1") =>
        LET fin == "TF_GOT_FIN" \in out.recv_flags
            ack == AcksOurFin(out.old, seg)
        IN /\ pcb.state = (IF fin THEN IF ack THEN "TIME_WAIT" ELSE "CLOSING"
                           ELSE IF ack THEN "FIN_WAIT_2" ELSE "FIN_WAIT_1")
           /\ fin => ("TF_ACK_NOW" \in pcb.flags /\ "ack_now" \in Range(out.ev))
           /\ (fin /\ ack) =>
                  /\ "tcp_pcb_purge" \in Range(out.ev)
                  /\ pcb.unacked = <<>> /\ pcb.unsent = <<>> /\ pcb.rtime = -1
           /\ ~(fin /\ ack) => "tcp_pcb_purge" \notin Range(out.ev)

(* a FIN arrives in FIN_WAIT_1 with the ACK of the data but not of our FIN *)
C21_Witness ==
    /\ PlainSegmentIn("FIN_WAIT_1")
    /\ "TF_GOT_FIN" \in out.recv_flags
    /\ TCP_SEQ_GT(seg.ackno, out.old.lastack)
    /\ ~AcksOurFin(out.old, seg)
    /\ pcb.state = "CLOSING"

(* every FIN-bearing segment of queue q is covered by ackno *)
FinsAcked(q, ackno) ==
    \A i \in DOMAIN q :
        "FIN" \in q[i].tcp_flags => TCP_SEQ_LEQ(Add32(q[i].seqno, q[i].len + 1), ackno)

(* C22 as stated: whenever a call takes its segment for the ACK of our FIN
   (FIN_WAIT_1 to FIN_WAIT_2 or TIME_WAIT, CLOSING to TIME_WAIT, LAST_ACK to
   closed), the FIN has been transmitted and is covered by the ackno: no
   FIN-bearing segment of unacked or unsent lies beyond it *)
C22_FinAckMeansFinAcked ==
    (/\ out.op = "input"
     /\ \/ out.old.state = "FIN_WAIT_1" /\ pcb.state \in {"FIN_WAIT_2", "TIME_WAIT"}
        \/ out.old.state = "CLOSING" /\ pcb.state = "TIME_WAIT"
        \/ out.old.state = "LAST_ACK" /\ "TF_CLOSED" \in out.recv_flags) =>
        FinsAcked(out.old.unacked \o out.old.unsent, seg.ackno)

(* the events of set_tcp_state *)
StateEvents ==
    {"state:CLOSED", "state:LISTEN", "state:SYN_SENT", "state:SYN_RCVD", "state:ESTABLISHED",
     "state:FIN_WAIT_1", "state:FIN_WAIT_2", "state:CLOSE_WAIT", "state:CLOSING",
     "state:LAST_ACK", "state:TIME_WAIT"}

(* C23: in LAST_ACK the ACK of our FIN sets TF_CLOSED and the caller removes
   the PCB; the state stays LAST_ACK and no sent, recv or closed upcall
   fires, whatever else the segment acknowledges or carries.  Any other
   segment leaves the PCB in LAST_ACK and removes nothing *)
C23_LastAckClosesWithoutStateChange ==
    PlainSegmentIn("LAST_ACK") =>
        /\ pcb.state = "LAST_ACK"
        /\ Range(out.ev) \cap StateEvents = {}
        /\ IF AcksOurFin(out.old, seg)
           THEN /\ "TF_CLOSED" \in out.recv_flags
                /\ Count(out.ev, "tcp_pcb_remove") = 1
                /\ alive = "gone"
                /\ Range(out.ev) \cap {"up:sent", "up:recv", "up:closed", "up:err",
                                       "tcp_output"} = {}
           ELSE /\ "TF_CLOSED" \notin out.recv_flags
                /\ "tcp_pcb_remove" \notin Range(out.ev)

(* the ACK of the data and of our FIN at once in LAST_ACK: pcb->acked counts
   the data, and still no sent upcall fires *)
C23_Witness ==
    /\ PlainSegmentIn("LAST_ACK")
    /\ AcksOurFin(out.old, seg)
    /\ pcb.acked > 0
    /\ out.old.unacked # <<>>
    /\ pcb.unacked = <<>>
    /\ alive = "gone"

(* the segment sg is the SYN|ACK that the PCB pc in SYN_SENT waits for *)
AnswersOurSyn(pc, sg) ==
    /\ ~sg.short
    /\ pc.state = "SYN_SENT"
    /\ "RST" \notin sg.flags
    /\ {"SYN", "ACK"} \subseteq sg.flags
    /\ pc.unacked # <<>>
    /\ sg.ackno = Add32(pc.unacked[1].seqno, 1)

(* a segment with ACK and without SYN and RST for the PCB pc in SYN_SENT *)
BareAckInSynSent(pc, sg) ==
    /\ ~sg.short
    /\ pc.state = "SYN_SENT"
    /\ "ACK" \in sg.flags
    /\ sg.flags \cap {"SYN", "RST"} = {}

(* C24: in SYN_SENT the SYN|ACK whose ackno is the sequence number of our
   SYN plus 1 sets ESTABLISHED, rcv_nxt = seqno + 1 and lastack = ackno, takes
   the SYN out of unacked and fires the connected upcall once; an immediate
   ACK is scheduled unless the application aborts the connection from that
   upcall.  An ACK without SYN makes a RST be sent and leaves the state
   SYN_SENT and unacked as they were *)
C24_SynSentHandshake ==
    /\ (out.op = "input" /\ AnswersOurSyn(out.old, seg)) =>
           /\ pcb.state = "ESTABLISHED"
           /\ Count(out.ev, "state:ESTABLISHED") = 1
           /\ pcb.rcv_nxt = Add32(seg.seqno, 1)
           /\ pcb.lastack = seg.ackno
           /\ pcb.unacked = Tail(out.old.unacked)
           /\ pcb.snd_queuelen = out.old.snd_queuelen - 1
           /\ Count(out.ev, "up:connected") = 1
           /\ "tcp_rst" \notin Range(out.ev)
           /\ IF env.connected = "ERR_ABRT"
              THEN alive = "gone" /\ Range(out.ev) \cap {"ack_now", "tcp_output"} = {}
              ELSE /\ alive = "live"
                   /\ "TF_ACK_NOW" \in pcb.flags
                   /\ FirstAt(out.ev, "up:connected", 1) < FirstAt(out.ev, "ack_now", 1)
    /\ (out.op = "input" /\ BareAckInSynSent(out.old, seg)) =>
           /\ Count(out.ev, "tcp_rst") = 1
           /\ pcb.state = "SYN_SENT"
           /\ pcb.unacked = out.old.unacked
           /\ pcb.rcv_nxt = out.old.rcv_nxt /\ pcb.lastack = out.old.lastack
           /\ "up:connected" \notin Range(out.ev)
           /\ alive = "live"

(* the SYN|ACK has arrived and the application has kept the connection *)
C24_Witness ==
    /\ out.op = "input"
    /\ AnswersOurSyn(out.old, seg)
    /\ out.old.unacked[1].tcp_flags = {"SYN"}
    /\ pcb.unacked = <<>>
    /\ "ack_now" \in Range(out.ev)
    /\ alive = "live"

(* a segment with SYN and without RST for a PCB whose state is past the
   handshake *)
UnexpectedSyn(pc, sg) ==
    /\ ~sg.short
    /\ "SYN" \in sg.flags
    /\ "RST" \notin sg.flags
    /\ pc.state \in {"ESTABLISHED", "FIN_WAIT_1", "FIN_WAIT_2", "CLOSE_WAIT", "CLOSING",
                     "LAST_ACK"}

(* C25: a SYN without RST that arrives in a state other than SYN_SENT and
   SYN_RCVD schedules an immediate ACK and changes nothing else: every field
   of the PCB but TF_ACK_NOW is as before (state, rcv_nxt, rcv_wnd, lastack,
   snd_wnd, dupacks, tmr, ts_recent, the three queues), nothing is delivered
   and no state is set *)
C25_UnexpectedSynOnlyAcked ==
    (out.op = "input" /\ UnexpectedSyn(out.old, seg)) =>
        /\ pcb = [out.old EXCEPT !.flags = @ \cup {"TF_ACK_NOW"}]
        /\ Count(out.ev, "ack_now") = 1
        /\ out.delivered = <<>>
        /\ out.recv_flags = {}
        /\ Range(out.ev) \cap (StateEvents \cup {"up:recv", "up:closed", "up:err", "tcp_rst",
                                              "tcp_pcb_remove", "tcp_pcb_purge"}) = {}

(* a SYN at rcv_nxt with a timestamp option newer than ts_recent, for a
   connection in FIN_WAIT_1 *)
C25_Witness ==
    /\ out.op = "input"
    /\ UnexpectedSyn(out.old, seg)
    /\ out.old.state = "FIN_WAIT_1"
    /\ seg.seqno = out.old.rcv_nxt
    /\ seg.opts = TsOpt(2)
    /\ out.old.ts_recent < 2
    /\ "ack_now" \in Range(out.ev)

(* C26: a segment for the listener with RST or FIN, whatever else it has, is
   dropped: no PCB is made, no RST is sent and the listener is as before; a
   segment with ACK and neither RST nor FIN, with SYN or without, is answered
   with one RST and makes no PCB *)
C26_ListenIgnoresRstFinRejectsAck ==
    (out.op = "listen" /\ ~seg.short) =>
        /\ seg.flags \cap {"RST", "FIN"} # {} =>
               /\ out.ev = <<"pbuf_free:p">>
               /\ pcb = out.old
               /\ alive # "live"
               /\ lpcb = Listener
        /\ (seg.flags \cap {"RST", "FIN"} = {} /\ "ACK" \in seg.flags) =>
               /\ out.ev = <<"tcp_rst", "pbuf_free:p">>
               /\ pcb = out.old
               /\ alive # "live"
               /\ lpcb = Listener

(* a SYN|FIN arrives at the listener *)
C26_Witness ==
    /\ out.op = "listen"
    /\ seg.flags = {"SYN", "FIN"}
    /\ env = AllOk
    /\ alive # "live"
    /\ out.ev = <<"pbuf_free:p">>

(* C27 as stated: once the PCB of a passive open has been abandoned, because
   the accept registration failed or because the SYN|ACK could not be
   enqueued, no later callback is given it and nothing is transmitted for it
   in that call *)
C27_AbandonedPcbNotUsed ==
    out.op = "listen" =>
        /\ ("syn_received" \in Range(out.ev) /\ ~env.syn_received_ok) =>
               Range(out.ev) \cap {"enqueue_synack", "tcp_output", "accepted_pcb"} = {}
        /\ \A i \in DOMAIN out.ev, j \in DOMAIN out.ev :
               (out.ev[i] = "tcp_abandon" /\ j > i) =>
                   out.ev[j] \notin {"accepted_pcb", "tcp_output", "syn_received"}

(* C28 as stated: when the reuse callback fails for a reusable SYN in
   TIME_WAIT, no SYN|ACK is enqueued or sent and the PCB is as it was before
   the SYN: in TIME_WAIT, with rcv_nxt and the windows unchanged *)
C28_FailedReuseLeavesTimeWait ==
    (/\ out.op = "input"
     /\ out.old.state = "TIME_WAIT"
     /\ "up:syn_tw_handled" \in Range(out.ev)
     /\ ~env.reuse_ok) =>
        /\ Range(out.ev) \cap {"enqueue_synack", "tcp_output"} = {}
        /\ pcb.state = "TIME_WAIT"
        /\ pcb.rcv_nxt = out.old.rcv_nxt
        /\ pcb.rcv_wnd = out.old.rcv_wnd
        /\ pcb.snd_wnd = out.old.snd_wnd

(* a RST, or a SYN without ACK that the reuse rule turns down, for the PCB
   pc in TIME_WAIT *)
DroppedInTimeWait(pc, sg) ==
    /\ ~sg.short
    /\ pc.state = "TIME_WAIT"
    /\ \/ "RST" \in sg.flags
       \/ "SYN" \in sg.flags /\ "ACK" \notin sg.flags /\ ~ReuseConditions(pc, sg)

(* C29: in TIME_WAIT a segment with RST, and a SYN without ACK that is not
   reusable, are dropped in silence, with a FIN or payload on them or not:
   no field of the PCB changes and no ACK, RST or other output is made *)
C29_TimeWaitSilentDrop ==
    (out.op = "input" /\ DroppedInTimeWait(out.old, seg)) =>
        /\ pcb = out.old
        /\ out.ev = <<"pbuf_free:p">>
        /\ out.delivered = <<>>
        /\ alive = "live"

(* a RST that also carries a FIN arrives in TIME_WAIT *)
C29_Witness ==
    /\ out.op = "input"
    /\ DroppedInTimeWait(out.old, seg)
    /\ seg.flags = {"RST", "FIN"}
    /\ pcb.state = "TIME_WAIT"
    /\ "tcp_output" \notin Range(out.ev)

(***************************************************************************)
(* Window updates and the persist timer (WndSpec): an established          *)
(* connection with data sent or waiting, and ACKs that announce windows    *)
(* down to zero.                                                           *)
(***************************************************************************)
MaxWndSteps == 3
MaxWndAdv == 2

(* L being lastack: nothing in flight and one segment waiting; one segment
   in flight and one waiting; two segments in flight *)
WndPcbs ==
    LET L == established_pcb.lastack
        est == [established_pcb EXCEPT !.snd_wnd = MaxWndAdv, !.snd_queuelen = 2]
        sent == [est EXCEPT !.rtime = 0, !.ticks_since_data_sent = 0]
    IN {[est EXCEPT !.unsent = <<TxSeg(L, 1, {"ACK"}, FALSE, <<TCP_HLEN + 1>>)>>,
                    !.snd_queuelen = 1],
        [sent EXCEPT !.unacked = <<TxSeg(L, 1, {"ACK"}, FALSE, <<TCP_HLEN + 1>>)>>,
                     !.unsent = <<TxSeg(Add32(L, 1), 1, {"ACK"}, FALSE, <<TCP_HLEN + 1>>)>>,
                     !.snd_nxt = Add32(L, 1)],
        [sent EXCEPT !.unacked = <<TxSeg(L, 1, {"ACK"}, FALSE, <<TCP_HLEN + 1>>),
                                   TxSeg(Add32(L, 1), 1, {"ACK"}, FALSE, <<TCP_HLEN + 1>>)>>,
                     !.snd_nxt = Add32(L, 2)]}

WndInit ==
    /\ pcb \in WndPcbs
    /\ lpcb = Listener
    /\ alive = "live"
    /\ seg = NoSeg
    /\ env = AllOk
    /\ out = NoOut(pcb)
    /\ hist = NoHist

WndInput ==
    \E k \in 0..2, w \in 0..MaxWndAdv, len \in 0..1 :
        /\ hist.steps < MaxWndSteps
        /\ Input(Segment(pcb.rcv_nxt, Off32(pcb.lastack, k), {"ACK"}, len, 0, w, <<>>),
                 AllOk)

WndNext == WndInput \/ Return

WndSpec == WndInit /\ [][WndNext]_vars

(* the segment sg reaches tcp_receive on the PCB pc and its window is taken *)
WindowUpdateAccepted(pc, sg) ==
    /\ ~sg.short
    /\ pc.state = "ESTABLISHED"
    /\ sg.flags = {"ACK"}
    /\ sg.seqno = pc.rcv_nxt
    /\ \/ TCP_SEQ_LT(pc.snd_wl1, sg.seqno)
       \/ pc.snd_wl1 = sg.seqno /\ TCP_SEQ_LT(pc.snd_wl2, sg.ackno)
       \/ pc.snd_wl2 = sg.ackno /\ SND_WND_SCALE(pc, sg.wnd) > pc.snd_wnd

(* C30 as stated: when an accepted window update makes snd_wnd zero while
   persist_backoff is 0, persist_backoff is non-zero once the segment has
   been processed; when an accepted window update makes snd_wnd non-zero
   while persist_backoff is above 0, persist_backoff is 0 afterwards *)
C30_PersistFollowsWindow ==
    (out.op = "input" /\ WindowUpdateAccepted(out.old, seg)) =>
        /\ (seg.wnd = 0 /\ out.old.persist_backoff = 0) => pcb.persist_backoff # 0
        /\ (seg.wnd # 0 /\ out.old.persist_backoff > 0) => pcb.persist_backoff = 0

(***************************************************************************)
(* Claims on the retransmit queue (AckSpec)                                *)
(***************************************************************************)
(* a is the transmit segment b, trimmed at its start or not at all *)
SameSegment(a, b) ==
    /\ a.tcp_flags = b.tcp_flags
    /\ a.zc = b.zc
    /\ Add32(a.seqno, a.len) = Add32(b.seqno, b.len)

(* new is what is left of old after segments were taken from its head, the
   first one left possibly trimmed *)
IsSuffixOf(new, old) ==
    \E n \in 0..Len(old) :
        /\ Len(new) = Len(old) - n
        /\ \A i \in 1..Len(new) :
               IF i = 1 THEN SameSegment(new[i], old[n + i]) ELSE new[i] = old[n + i]

(* C31: after an ACK of new data, unacked is a suffix of what it was, in the
   same order (the first segment left may have been trimmed at its start),
   no segment left ends at or below ackno, and rtime is -1 exactly when
   unacked is empty and 0 otherwise *)
C31_UnackedTrimmedFromHead ==
    (out.op = "input" /\ AcksNew(out.old, seg)) =>
        /\ IsSuffixOf(pcb.unacked, out.old.unacked)
        /\ \A i \in DOMAIN pcb.unacked :
               TCP_SEQ_GT(Add32(pcb.unacked[i].seqno, TCP_SEGLEN(pcb.unacked[i])), seg.ackno)
        /\ pcb.rtime = (IF pcb.unacked = <<>> THEN -1 ELSE 0)

(* a new ACK frees the first of two segments in flight and leaves the second *)
C31_Witness ==
    /\ out.op = "input"
    /\ AcksNew(out.old, seg)
    /\ Len(out.old.unacked) = 2
    /\ pcb.unacked = <<out.old.unacked[2]>>
    /\ pcb.rtime = 0

(***************************************************************************)
(* Partial acknowledgement of one segment in flight (ShrinkSpec): regular  *)
(* and zero-copy segments of one to three pbufs, with the timestamp option *)
(* enabled on the connection or not.                                       *)
(***************************************************************************)
MaxShrinkSteps == 2
MaxShrinkAck == 6

(* the sum of the p->len of the pbufs of a transmit chain *)
RECURSIVE chain_len(_)
chain_len(p) == IF p = <<>> THEN 0 ELSE p[1] + chain_len(Tail(p))

(* the payload bytes in the pbufs of a segment: <<first, following...>> *)
ShrinkPayloads == {<<6>>, <<2, 4>>, <<1, 2, 3>>, <<5, 1>>}

(* the pbuf lengths of a regular segment with these payloads: its first
   pbuf begins with the TCP header and the options *)
RegularChain(pl, optlen) == <<TCP_HLEN + optlen + pl[1]>> \o Tail(pl)

ShrinkPcbs ==
    LET L == established_pcb.lastack
    IN {[established_pcb EXCEPT
             !.flags = fl,
             !.rtime = 0,
             !.ticks_since_data_sent = 0,
             !.unacked = <<TxSeg(L, chain_len(pl), {"ACK"}, zc,
                                 IF zc THEN pl
                                 ELSE RegularChain(pl, IF fl = {} THEN 0 ELSE TS_OPT_LEN))>>,
             !.snd_nxt = Add32(L, chain_len(pl)),
             !.snd_queuelen = Len(pl)] :
        fl \in {{}, {"TF_TIMESTAMP"}}, zc \in BOOLEAN, pl \in ShrinkPayloads}

ShrinkInit ==
    /\ pcb \in ShrinkPcbs
    /\ lpcb = Listener
    /\ alive = "live"
    /\ seg = NoSeg
    /\ env = AllOk
    /\ out = NoOut(pcb)
    /\ hist = NoHist

ShrinkInput ==
    \E k \in 1..MaxShrinkAck :
        /\ hist.steps < MaxShrinkSteps
        /\ Input(Segment(pcb.rcv_nxt, Off32(pcb.lastack, k), {"ACK"}, 0, 0, pcb.snd_wnd,
                         <<>>), AllOk)

ShrinkNext == ShrinkInput \/ Return

ShrinkSpec == ShrinkInit /\ [][ShrinkNext]_vars

(* the segment sg acknowledges a part of the first segment in flight of the
   PCB pc, a segment without FIN *)
AcksInsideHead(pc, sg) ==
    /\ AcksNew(pc, sg)
    /\ pc.unacked # <<>>
    /\ "FIN" \notin pc.unacked[1].tcp_flags
    /\ TCP_SEQ_GT(sg.ackno, pc.unacked[1].seqno)
    /\ TCP_SEQ_LT(sg.ackno, Add32(pc.unacked[1].seqno, pc.unacked[1].len))

(* the payload bytes that the pbufs of the transmit segment s hold *)
ChainPayload(pc, s) ==
    IF s.zc THEN chain_len(s.p) ELSE chain_len(s.p) - TCP_HLEN - shrink_optlen(pc)

(* C32 as stated: after a partial acknowledgement of a segment without FIN,
   regular or zero-copy, timestamps enabled or not, the segment starts at
   ackno, ends where it ended, and its pbufs hold len bytes of payload *)
C32_ShrinkToAckno ==
    (out.op = "input" /\ AcksInsideHead(out.old, seg)) =>
        /\ pcb.unacked # <<>>
        /\ pcb.unacked[1].seqno = seg.ackno
        /\ Add32(pcb.unacked[1].seqno, pcb.unacked[1].len)
               = Add32(out.old.unacked[1].seqno, out.old.unacked[1].len)
        /\ ChainPayload(pcb, pcb.unacked[1]) = pcb.unacked[1].len

(* C32, amended: the segment ends where it ended and its pbufs hold len
   bytes of payload; it starts at ackno when it is zero-copy or timestamps
   are not enabled, and at most 3 bytes below ackno (the bytes acknowledged
   in the pbuf that holds ackno are rounded down to a multiple of 4) when it
   is regular and timestamps are enabled *)
C32_ShrinkToAcknoAligned ==
    (out.op = "input" /\ AcksInsideHead(out.old, seg)) =>
        /\ pcb.unacked # <<>>
        /\ TCP_SEQ_LEQ(pcb.unacked[1].seqno, seg.ackno)
        /\ Sub32(seg.ackno, pcb.unacked[1].seqno) < 4
        /\ (pcb.unacked[1].zc \/ "TF_TIMESTAMP" \notin pcb.flags) =>
               pcb.unacked[1].seqno = seg.ackno
        /\ TCP_SEQ_GEQ(pcb.unacked[1].seqno, out.old.unacked[1].seqno)
        /\ Add32(pcb.unacked[1].seqno, pcb.unacked[1].len)
               = Add32(out.old.unacked[1].seqno, out.old.unacked[1].len)
        /\ ChainPayload(pcb, pcb.unacked[1]) = pcb.unacked[1].len

(* a regular segment of three pbufs with timestamps enabled loses its first
   two pbufs and starts below ackno *)
C32_Witness ==
    /\ out.op = "input"
    /\ AcksInsideHead(out.old, seg)
    /\ ~out.old.unacked[1].zc
    /\ "TF_TIMESTAMP" \in pcb.flags
    /\ Len(out.old.unacked[1].p) = 3
    /\ Len(pcb.unacked[1].p) = 1
    /\ TCP_SEQ_LT(pcb.unacked[1].seqno, seg.ackno)

(***************************************************************************)
(* Claims on the window of the out-of-sequence queue (DataSpec)            *)
(***************************************************************************)
(* C33 as stated: when a segment has been processed every entry of ooseq
   starts beyond rcv_nxt and ends at or below rcv_nxt + rcv_wnd, neither of
   the assertions on rcv_wnd has fired, and rcv_wnd has not gone below 0 *)
C33_OoseqInsideWindow ==
    out.op = "input" =>
        /\ \A i \in DOMAIN pcb.ooseq :
               /\ TCP_SEQ_LT(pcb.rcv_nxt, pcb.ooseq[i].seqno)
               /\ TCP_SEQ_LEQ(Add32(pcb.ooseq[i].seqno, TCP_TCPLEN(pcb.ooseq[i])),
                              Add32(pcb.rcv_nxt, pcb.rcv_wnd))
        /\ Range(out.ev) \cap {"assert: tcplen > rcv_wnd",
                               "assert: ooseq tcplen > rcv_wnd"} = {}
        /\ pcb.rcv_wnd <= pcb.rcv_wnd_max

(***************************************************************************)
(* Claims on what follows the FIN of the peer (ConnSpec)                   *)
(***************************************************************************)
(* C34: a connection accepts the FIN of its peer at most once and fires the
   EOF upcall at most once; once the FIN has been accepted the connection
   is in CLOSE_WAIT, CLOSING, LAST_ACK or TIME_WAIT, and a segment that
   arrives in one of these states (the SYN that reuses a TIME_WAIT
   connection apart) delivers nothing, leaves rcv_nxt and ooseq as they
   were, accepts no FIN and fires no EOF upcall; in CLOSE_WAIT, CLOSING and
   LAST_ACK a FIN sent again is answered with an ACK *)
C34_NothingAfterPeerFin ==
    /\ hist.fins <= 1
    /\ hist.eofs <= 1
    /\ (hist.fins = 1 /\ alive = "live") => pcb.state \in PeerFinStates
    /\ (/\ out.op = "input"
        /\ ~seg.short
        /\ out.old.state \in PeerFinStates
        /\ "up:syn_tw_handled" \notin Range(out.ev)) =>
           /\ out.delivered = <<>>
           /\ pcb.rcv_nxt = out.old.rcv_nxt
           /\ pcb.ooseq = out.old.ooseq
           /\ "TF_GOT_FIN" \notin out.recv_flags
           /\ Range(out.ev) \cap {"up:recv", "up:closed"} = {}
           /\ (/\ out.old.state # "TIME_WAIT"
               /\ seg.flags = {"ACK", "FIN"}
               /\ seg.seqno = Sub32(out.old.rcv_nxt, 1 + seg.len)) =>
                  (alive = "gone" \/ "TF_ACK_NOW" \in pcb.flags)

(* the peer's FIN, accepted and reported earlier, arrives again with the
   byte before it while our own FIN waits for its ACK in LAST_ACK *)
C34_Witness ==
    /\ out.op = "input"
    /\ out.old.state = "LAST_ACK"
    /\ hist.fins = 1
    /\ hist.eofs = 1
    /\ seg.flags = {"ACK", "FIN"}
    /\ seg.len = 1
    /\ seg.seqno = Sub32(out.old.rcv_nxt, 2)
    /\ "ack_now" \in Range(out.ev)
    /\ pcb.state = "LAST_ACK"

(***************************************************************************)
(* Claims on the state machine (ConnSpec)                                  *)
(***************************************************************************)
(* the changes of state that one inbound segment may make: <<from, to>> *)
InputTransitions ==
    {<<"SYN_SENT", "ESTABLISHED">>, <<"SYN_RCVD", "ESTABLISHED">>,
     <<"SYN_RCVD", "CLOSE_WAIT">>, <<"ESTABLISHED", "CLOSE_WAIT">>,
     <<"FIN_WAIT_1", "FIN_WAIT_2">>, <<"FIN_WAIT_1", "CLOSING">>,
     <<"FIN_WAIT_1", "TIME_WAIT">>, <<"FIN_WAIT_2", "TIME_WAIT">>,
     <<"CLOSING", "TIME_WAIT">>, <<"TIME_WAIT", "SYN_RCVD">>}

(* C35: the state of a PCB after one inbound segment is the state before it
   or one of: SYN_SENT to ESTABLISHED; SYN_RCVD to ESTABLISHED or
   CLOSE_WAIT; ESTABLISHED to CLOSE_WAIT; FIN_WAIT_1 to FIN_WAIT_2, CLOSING
   or TIME_WAIT; FIN_WAIT_2 to TIME_WAIT; CLOSING to TIME_WAIT; TIME_WAIT to
   SYN_RCVD, and this one only through the reuse of the PCB.  CLOSE_WAIT
   and LAST_ACK are not left, also when the PCB is removed, and the
   listener stays in LISTEN *)
C35_InputTransitions ==
    /\ lpcb.state = "LISTEN"
    /\ out.op = "input" =>
          /\ pcb.state = out.old.state \/ <<out.old.state, pcb.state>> \in InputTransitions
          /\ pcb.state = "SYN_RCVD" /\ out.old.state # "SYN_RCVD" =>
                 /\ out.old.state = "TIME_WAIT"
                 /\ "up:syn_tw_handled" \in Range(out.ev)

(* the ACK of our FIN arrives in LAST_ACK: the PCB is removed in LAST_ACK *)
C35_Witness ==
    /\ out.op = "input"
    /\ out.old.state = "LAST_ACK"
    /\ "TF_CLOSED" \in out.recv_flags
    /\ alive = "gone"
    /\ pcb.state = "LAST_ACK"

(***************************************************************************)
(* The upcalls of one call of L3_level_tcp_input for an active PCB         *)
(***************************************************************************)

(* the three upcalls the active branch of L3_level_tcp_input makes *)
InputUpcalls == {"up:sent", "up:recv", "up:closed"}

(* what the active branch does once the first of its upcalls has been made *)
AfterProcessEvents ==
    InputUpcalls \cup {"pbuf_free:recv_data", "tcp_abort", "tcp_output", "gone",
                       "write:is_in_input", "pbuf_free:inseg.p"}

(* the upcall up was made in the last call and returned ERR_ABRT *)
UpcallAborted(up, ret) == up \in Range(out.ev) /\ ret = "ERR_ABRT"

(* C36: in one call for an active PCB the sent, recv and closed upcalls are
   made at most once each and in that order; every step of the state
   machine (state changes, ACK scheduling, congestion control, the connected
   upcall) comes before the first of them, so the PCB the upcalls see has
   the state, rcv_nxt and lastack it has after the call; tcp_output is called
   once, behind all the upcalls, when none of them returned ERR_ABRT and the
   input path did not abort the connection itself, and not at all otherwise:
   then no later upcall is made and the connection is gone *)
C36_UpcallOrder ==
    (out.op = "input" /\ ~seg.short /\ PCB_IN_ACTIVE_STATE(out.old)) =>
        LET ev == out.ev
            s == FirstAt(ev, "up:sent", 1)
            r == FirstAt(ev, "up:recv", 1)
            cl == FirstAt(ev, "up:closed", 1)
            t == FirstAt(ev, "tcp_output", 1)
            aborted == \/ UpcallAborted("up:sent", env.sent)
                       \/ UpcallAborted("up:recv", env.recv)
                       \/ UpcallAborted("up:closed", env.closed)
        IN /\ \A u \in InputUpcalls \cup {"tcp_output"} : Count(ev, u) <= 1
           /\ (s > 0 /\ r > 0) => s < r
           /\ (s > 0 /\ cl > 0) => s < cl
           /\ (r > 0 /\ cl > 0) => r < cl
           /\ t > 0 => (s < t /\ r < t /\ cl < t)
           /\ \A i \in DOMAIN ev : \A j \in DOMAIN ev :
                  (ev[i] \in InputUpcalls /\ i < j) => ev[j] \in AfterProcessEvents
           /\ (s > 0 \/ r > 0 \/ cl > 0) =>
                  /\ r > 0 => pcb.rcv_nxt = Add32(out.old.rcv_nxt, Len(out.delivered)
                                  + (IF "TF_GOT_FIN" \in out.recv_flags THEN 1 ELSE 0))
                  /\ s > 0 => pcb.lastack = (IF AcksNew(out.old, seg) THEN seg.ackno
                                              ELSE out.old.lastack)
           /\ UpcallAborted("up:sent", env.sent) => (r = 0 /\ cl = 0)
           /\ UpcallAborted("up:recv", env.recv) => cl = 0
           /\ (aborted \/ "tcp_abort" \in Range(ev)) => (t = 0 /\ alive = "gone")
           /\ (~aborted /\ "tcp_abort" \notin Range(ev) /\ (s > 0 \/ r > 0 \/ cl > 0)) =>
                  (t > 0 /\ alive = "live")

(* one segment acknowledges data, carries data and the FIN: the three upcalls
   and tcp_output are all made *)
C36_Witness ==
    /\ out.op = "input"
    /\ PCB_IN_ACTIVE_STATE(out.old)
    /\ FirstAt(out.ev, "up:sent", 1) > 0
    /\ FirstAt(out.ev, "up:sent", 1) < FirstAt(out.ev, "up:recv", 1)
    /\ FirstAt(out.ev, "up:recv", 1) < FirstAt(out.ev, "up:closed", 1)
    /\ FirstAt(out.ev, "up:closed", 1) < FirstAt(out.ev, "tcp_output", 1)

(* the last call was for a PCB whose receiving side the application had
   closed, with a segment that brings new payload in sequence: no RST, no
   SYN, payload beginning at rcv_nxt, a state before CLOSE_WAIT, and no
   abort from the sent upcall *)
DataAfterRxClosed ==
    /\ out.op = "input"
    /\ ~seg.short
    /\ "TF_RXCLOSED" \in out.old.flags
    /\ out.old.state \in {"ESTABLISHED", "FIN_WAIT_1", "FIN_WAIT_2"}
    /\ seg.flags \cap {"RST", "SYN"} = {}
    /\ seg.len > 0
    /\ seg.seqno = out.old.rcv_nxt
    /\ out.old.rcv_wnd > 0
    /\ ~UpcallAborted("up:sent", env.sent)

(* C37: payload that would be delivered arrives after the application closed
   the receiving side (TF_RXCLOSED): the payload is released once, tcp_abort
   is called and the connection is gone; no recv upcall, no EOF upcall and no
   tcp_output are made, nothing counts as delivered.  Past SYN_RCVD
   tcp_abort is called in no other case. *)
C37_DataAfterRxClosedAborts ==
    /\ DataAfterRxClosed =>
           /\ Count(out.ev, "pbuf_free:recv_data") = 1
           /\ Count(out.ev, "tcp_abort") = 1
           /\ FirstAt(out.ev, "pbuf_free:recv_data", 1) < FirstAt(out.ev, "tcp_abort", 1)
           /\ alive = "gone"
           /\ Range(out.ev) \cap {"up:recv", "up:closed", "tcp_output"} = {}
           /\ out.delivered = <<>>
    /\ (out.op = "input" /\ out.old.state # "SYN_RCVD" /\ "tcp_abort" \in Range(out.ev)) =>
           DataAfterRxClosed

(* payload and the FIN arrive in FIN_WAIT_1 after tcp_close: the connection
   is aborted and the EOF is not reported *)
C37_Witness ==
    /\ DataAfterRxClosed
    /\ "FIN" \in seg.flags
    /\ out.old.state = "FIN_WAIT_1"
    /\ "tcp_abort" \in Range(out.ev)
    /\ alive = "gone"

(***************************************************************************)
(* The buffer of the arriving segment                                      *)
(***************************************************************************)

(* how often the last call released the arriving buffer as p or inseg.p *)
ReleasedAsSegment == Count(out.ev, "pbuf_free:p") + Count(out.ev, "pbuf_free:inseg.p")

(* tcp_receive made the arriving buffer the head of recv_data and cleared
   inseg.p (1436-1441): the label aborted then finds inseg.p NULL *)
MovedToRecvData ==
    /\ out.op = "input"
    /\ ~seg.short
    /\ PCB_IN_ACTIVE_STATE(out.old)
    /\ ReleasedAsSegment = 0

(* the recv upcall was made and took the chain (ERR_OK, or ERR_ABRT from an
   application that aborted the connection) *)
TakenByRecv == "up:recv" \in Range(out.ev) /\ env.recv \in {"ERR_OK", "ERR_ABRT"}

(* C38: every call of L3_level_tcp_input disposes of the arriving buffer
   exactly once: it is released as p or inseg.p, or, when tcp_receive moved
   it to recv_data, either the recv upcall takes the chain or the chain is
   released, never both and never neither *)
C38_BufferDisposedOnce ==
    (out.op \in {"input", "listen"}) =>
        /\ ReleasedAsSegment <= 1
        /\ (out.op = "listen" \/ seg.short \/ ~PCB_IN_ACTIVE_STATE(out.old)) =>
               ReleasedAsSegment = 1
        /\ MovedToRecvData =>
               (IF TakenByRecv THEN 0 ELSE 1) = Count(out.ev, "pbuf_free:recv_data")
        /\ ~MovedToRecvData => Count(out.ev, "pbuf_free:recv_data") = 0

(***************************************************************************)
(* lastack                                                                 *)
(***************************************************************************)

(* the last call completed an active open: SYN_SENT took its SYN|ACK *)
SynSentCompleted ==
    /\ out.old.state = "SYN_SENT"
    /\ pcb.state = "ESTABLISHED"
    /\ {"SYN", "ACK"} \subseteq seg.flags

(* the segment of the last call carries an ACK with lastack < ackno <= snd_nxt *)
AckInSendWindow ==
    /\ "ACK" \in seg.flags
    /\ TCP_SEQ_BETWEEN(seg.ackno, Add32(out.old.lastack, 1), out.old.snd_nxt)

(* C39: within a connection (a TIME_WAIT reuse begins another) lastack never
   decreases and never exceeds snd_nxt; a call changes it only if its
   segment carries an ACK with lastack < ackno <= snd_nxt or completes
   SYN_SENT, and then lastack is that ackno; for the ACK dupacks is 0
   afterwards *)
C39_LastackMonotone ==
    (out.op = "input" /\ "up:syn_tw_handled" \notin Range(out.ev)) =>
        /\ TCP_SEQ_GEQ(pcb.lastack, out.old.lastack)
        /\ TCP_SEQ_LEQ(pcb.lastack, pcb.snd_nxt)
        /\ pcb.snd_nxt = out.old.snd_nxt
        /\ pcb.lastack # out.old.lastack =>
               /\ SynSentCompleted \/ AckInSendWindow
               /\ pcb.lastack = seg.ackno
               /\ ~SynSentCompleted => pcb.dupacks = 0

(* an ACK for part of the data in flight arrives after duplicate ACKs had
   been counted *)
C39_Witness ==
    /\ out.op = "input"
    /\ AckInSendWindow
    /\ out.old.dupacks > 0
    /\ TCP_SEQ_LT(seg.ackno, out.old.snd_nxt)
    /\ pcb.lastack = seg.ackno
    /\ pcb.dupacks = 0

(***************************************************************************)
(* snd_queuelen                                                            *)
(***************************************************************************)

(* the number of pbufs of the segments of a transmit queue *)
RECURSIVE queue_clen(_)
queue_clen(q) == IF q = <<>> THEN 0 ELSE pbuf_clen(q[1].p) + queue_clen(Tail(q))

(* the pbufs queued for sending: those of unacked and of unsent *)
QueuedFragments(pc) == queue_clen(pc.unacked) + queue_clen(pc.unsent)

(* C40: a call that begins with snd_queuelen equal to the number of pbufs in
   unacked and unsent ends with it equal again, whatever the ACK removes
   (whole segments, pbufs of a trimmed head, the SYN in SYN_SENT); it never
   grows in the input path and its assertion never fires.  The queues
   released as a whole by tcp_pcb_purge and the PCB recycled by a TIME_WAIT
   reuse are outside the statement. *)
C40_QueuelenCountsFragments ==
    (/\ out.op = "input"
     /\ Range(out.ev) \cap {"tcp_pcb_purge", "up:syn_tw_handled"} = {}
     /\ out.old.snd_queuelen = QueuedFragments(out.old)) =>
        /\ pcb.snd_queuelen = QueuedFragments(pcb)
        /\ pcb.snd_queuelen <= out.old.snd_queuelen
        /\ "assert: pcb->snd_queuelen > 0" \notin Range(out.ev)

(* an ACK trims pbufs off the head segment and leaves part of it queued *)
C40_Witness ==
    /\ out.op = "input"
    /\ out.old.snd_queuelen = QueuedFragments(out.old)
    /\ out.old.unacked # <<>>
    /\ pcb.unacked # <<>>
    /\ pcb.unacked[1] # out.old.unacked[1]
    /\ Len(pcb.unacked) = Len(out.old.unacked)
    /\ pcb.snd_queuelen < out.old.snd_queuelen
    /\ pcb.snd_queuelen = QueuedFragments(pcb)

====
